---- MODULE Spec2Model ----
(***************************************************************************)
(* Verification model of the fiber / knowledge-base retrieval engine of    *)
(* the AI-TKH backend (backend/app/services, backend/app/api/routes.py).   *)
(*                                                                         *)
(* Text is modelled by TLA+ strings (Len, SubSeq and \o act on them);      *)
(* Python's None is the empty tuple and a present value v is <<v>>.        *)
(***************************************************************************)
EXTENDS Integers, Sequences, FiniteSets, TLC

VARIABLES
    documents,      \* knowledge_base_documents: id -> committed row
    kb_embeddings,  \* knowledge_base_embeddings: set of committed rows
    audit_log,      \* knowledge_base_audit_log: sequence of committed rows
    next_doc_id,    \* the serial of knowledge_base_documents.id
    kb_ops,         \* number of service calls made so far
    kb_last,        \* what the last service call was and how it ended
    conversations,  \* chatbot_conversations of the user: id -> committed row
    chat_ops,       \* number of chatbot requests made so far
    chat_last,      \* what the last chatbot request was and how it ended
    call,           \* one call of a query or of a pure function: arguments and result
    requests,       \* chat requests in flight: what each one read when it began
    fiber_table,    \* fibers created through the admin routes: id -> row state
    fiber_embeddings, \* fiber_embeddings: set of committed rows
    next_embedding_id, \* the serial of fiber_embeddings.id
    runs,           \* embedding-generation runs in flight: position and pending reads
    fiber_ops,      \* number of fiber-store requests made so far
    fiber_last,     \* what the last fiber-store request was and how it ended
    cleared,        \* ids of the fibers that were in the store at a cache-clear request
    quiz_attempts,  \* quiz_attempts: id -> committed row
    quiz_answers,   \* quiz_answers: sequence of committed rows
    quiz_ops,       \* number of quiz requests made so far
    quiz_last       \* what the last quiz request was and how it ended

kbVars == <<documents, kb_embeddings, audit_log, next_doc_id, kb_ops, kb_last>>

chatVars == <<conversations, chat_ops, chat_last>>

vars == <<documents, kb_embeddings, audit_log, next_doc_id, kb_ops, kb_last,
          conversations, chat_ops, chat_last, call, requests,
          fiber_table, fiber_embeddings, next_embedding_id, runs, fiber_ops, fiber_last, cleared,
          quiz_attempts, quiz_answers, quiz_ops, quiz_last>>

fiberVars == <<fiber_table, fiber_embeddings, next_embedding_id, runs, fiber_ops, fiber_last, cleared>>

quizVars == <<quiz_attempts, quiz_answers, quiz_ops, quiz_last>>

\* what the knowledge-base requests leave alone
notKbVars == <<chatVars, call, requests, fiberVars, quizVars>>

\* what the chatbot requests leave alone
notChatVars == <<kbVars, call, requests, fiberVars, quizVars>>

\* what a call of a query or of a pure function leaves alone
notCallVars == <<kbVars, chatVars, requests, fiberVars, quizVars>>

(***************************************************************************)
(* Bounds of the model.                                                    *)
(***************************************************************************)
MaxDocs == 2
MaxOps == 3
MaxConversations == 1
MaxChats == 3
MaxSessions == 2
MaxFibers == 2
MaxFiberOps == 4

(***************************************************************************)
(* Python values.                                                          *)
(***************************************************************************)
None == <<>>
Some(v) == <<v>>
IsNone(o) == o = <<>>
Val(o) == o[1]

(***************************************************************************)
(* String helpers (str methods used by the services).                      *)
(***************************************************************************)
CharAt(s, i) == SubSeq(s, i, i)

Whitespace == {" ", "\n", "\t", "\r", "\f"}

IsSpace(c) == c \in Whitespace

\* s[i:] for a 1-based start i
From(s, i) == SubSeq(s, i, Len(s))

\* str.strip()
Strip(s) ==
    LET keep == {i \in 1..Len(s) : ~IsSpace(CharAt(s, i))}
    IN  IF keep = {} THEN ""
        ELSE LET lo == CHOOSE i \in keep : \A j \in keep : i <= j
                 hi == CHOOSE i \in keep : \A j \in keep : j <= i
             IN  SubSeq(s, lo, hi)

\* first index at which sub occurs in s, 0 when it does not (str.find + 1)
Find(s, sub) ==
    LET hits == {i \in 1..(Len(s) - Len(sub) + 1) : SubSeq(s, i, i + Len(sub) - 1) = sub}
    IN  IF hits = {} THEN 0 ELSE CHOOSE i \in hits : \A j \in hits : i <= j

\* the Python test `sub in s`
Contains(s, sub) == Find(s, sub) # 0

\* str.split(sep) for a non-empty separator
RECURSIVE Split(_, _)
Split(s, sep) ==
    LET i == Find(s, sep)
    IN  IF i = 0 THEN <<s>>
        ELSE <<SubSeq(s, 1, i - 1)>> \o Split(From(s, i + Len(sep)), sep)

\* str.lower() on the letters of the model's alphabet
UpperChars == "ABCDEFGHIJKLMNOPQRSTUVWXYZ"
LowerChars == "abcdefghijklmnopqrstuvwxyz"

LowerChar(c) ==
    IF Find(UpperChars, c) = 0 THEN c ELSE CharAt(LowerChars, Find(UpperChars, c))

RECURSIVE Lower(_)
Lower(s) == IF s = "" THEN "" ELSE LowerChar(CharAt(s, 1)) \o Lower(From(s, 2))

\* index of the first whitespace character of s, Len(s) + 1 when there is none
FirstSpace(s) ==
    IF \A i \in 1..Len(s) : ~IsSpace(CharAt(s, i)) THEN Len(s) + 1
    ELSE CHOOSE i \in 1..Len(s) :
            IsSpace(CharAt(s, i)) /\ \A j \in 1..(i - 1) : ~IsSpace(CharAt(s, j))

\* str.split(): the maximal runs of non-whitespace characters
RECURSIVE Words(_)
Words(s) ==
    IF Strip(s) = "" THEN <<>>
    ELSE <<SubSeq(Strip(s), 1, FirstSpace(Strip(s)) - 1)>>
            \o Words(From(Strip(s), FirstSpace(Strip(s))))

\* sep.join(parts)
RECURSIVE Join(_, _)
Join(parts, sep) ==
    IF parts = <<>> THEN ""
    ELSE IF Len(parts) = 1 THEN parts[1]
    ELSE parts[1] \o sep \o Join(Tail(parts), sep)

\* str.replace(old, new) for a non-empty old
RECURSIVE ReplaceAll(_, _, _)
ReplaceAll(s, old, new) ==
    IF Find(s, old) = 0 THEN s
    ELSE SubSeq(s, 1, Find(s, old) - 1) \o new
            \o ReplaceAll(From(s, Find(s, old) + Len(old)), old, new)

\* the Python test `x in list`
InSeq(x, seq) == \E i \in 1..Len(seq) : seq[i] = x

\* list[:n]
Take(seq, n) == SubSeq(seq, 1, IF Len(seq) < n THEN Len(seq) ELSE n)

(***************************************************************************)
(* KnowledgeBaseService.chunk_document                                     *)
(***************************************************************************)
chunk_size == 800
chunk_overlap == 200

SentenceEnd == {".", "!", "?"}

\* re.split(r'(?<=[.!?])\s+', paragraph)
RECURSIVE SplitSentences(_)
SplitSentences(p) ==
    LET starts == {i \in 2..Len(p) : CharAt(p, i - 1) \in SentenceEnd /\ IsSpace(CharAt(p, i))}
    IN  IF starts = {} THEN <<p>>
        ELSE LET i == CHOOSE k \in starts : \A j \in starts : k <= j
                 rest == {k \in i..Len(p) : ~IsSpace(CharAt(p, k))}
                 j == IF rest = {} THEN Len(p) + 1
                      ELSE CHOOSE k \in rest : \A m \in rest : k <= m
             IN  <<SubSeq(p, 1, i - 1)>> \o SplitSentences(From(p, j))

\* current_chunk[-chunk_overlap:] if longer than the overlap, else all of it
OverlapText(current_chunk) ==
    IF Len(current_chunk) > chunk_overlap
    THEN SubSeq(current_chunk, Len(current_chunk) - chunk_overlap + 1, Len(current_chunk))
    ELSE current_chunk

\* the loop over the sentences of one over-long paragraph
RECURSIVE ChunkSentences(_, _, _)
ChunkSentences(sentences, chunks, current_chunk) ==
    IF sentences = <<>> THEN [chunks |-> chunks, current_chunk |-> current_chunk]
    ELSE LET sentence == Head(sentences)
         IN  IF Len(current_chunk) + Len(sentence) + 1 > chunk_size
             THEN IF current_chunk # ""
                  THEN ChunkSentences(Tail(sentences),
                                      Append(chunks, Strip(current_chunk)),
                                      OverlapText(current_chunk) \o " " \o sentence)
                  ELSE ChunkSentences(Tail(sentences), Append(chunks, sentence), "")
             ELSE ChunkSentences(Tail(sentences), chunks,
                                 IF current_chunk # "" THEN current_chunk \o " " \o sentence
                                 ELSE sentence)

\* the loop over the paragraphs
RECURSIVE ChunkParagraphs(_, _, _)
ChunkParagraphs(paragraphs, chunks, current_chunk) ==
    IF paragraphs = <<>> THEN [chunks |-> chunks, current_chunk |-> current_chunk]
    ELSE LET paragraph == Strip(Head(paragraphs))
         IN  IF paragraph = ""
             THEN ChunkParagraphs(Tail(paragraphs), chunks, current_chunk)
             ELSE IF Len(current_chunk) + Len(paragraph) + 2 > chunk_size
             THEN IF current_chunk # ""
                  THEN ChunkParagraphs(Tail(paragraphs),
                                       Append(chunks, Strip(current_chunk)),
                                       OverlapText(current_chunk) \o "\n\n" \o paragraph)
                  ELSE LET r == ChunkSentences(SplitSentences(paragraph), chunks, current_chunk)
                       IN  ChunkParagraphs(Tail(paragraphs), r.chunks, r.current_chunk)
             ELSE ChunkParagraphs(Tail(paragraphs), chunks,
                                  IF current_chunk # "" THEN current_chunk \o "\n\n" \o paragraph
                                  ELSE paragraph)

\* chunk_document without the statement that adds the last chunk
chunk_document_DropsLast(content) ==
    IF content = "" THEN <<>>
    ELSE ChunkParagraphs(Split(content, "\n\n"), <<>>, "").chunks

chunk_document(content) ==
    IF content = "" THEN <<>>
    ELSE LET r == ChunkParagraphs(Split(content, "\n\n"), <<>>, "")
         IN  IF r.current_chunk # "" THEN Append(r.chunks, Strip(r.current_chunk))
             ELSE r.chunks

(***************************************************************************)
(* FiberSearchService.normalize_query                                      *)
(***************************************************************************)
MaxPatterns == 12

\* the typo_corrections dict, in insertion order
TypoCorrections ==
    << <<"spiniinng", "spinning">>, <<"spinnnning", "spinning">>, <<"spining", "spinning">>,
       <<"dyeinng", "dyeing">>, <<"weaving", "weaving">>, <<"kniting", "knitting">> >>

\* the loop over typo_corrections from entry k on
RECURSIVE ApplyTypos(_, _)
ApplyTypos(corrected, k) ==
    IF k > Len(TypoCorrections) THEN corrected
    ELSE ApplyTypos(IF Contains(corrected, TypoCorrections[k][1])
                    THEN ReplaceAll(corrected, TypoCorrections[k][1], TypoCorrections[k][2])
                    ELSE corrected,
                    k + 1)

\* length of the run of equal characters that starts s (s non-empty)
RunLength(s) ==
    IF \A i \in 1..Len(s) : CharAt(s, i) = CharAt(s, 1) THEN Len(s)
    ELSE (CHOOSE i \in 1..Len(s) :
            CharAt(s, i) # CharAt(s, 1) /\ \A j \in 1..(i - 1) : CharAt(s, j) = CharAt(s, 1)) - 1

\* re.sub(r'(.)\1{2,}', ..., s): every run of 3 or more equal characters (no
\* newline) becomes `keep` copies of the character
RECURSIVE CollapseRuns(_, _)
CollapseRuns(s, keep) ==
    IF s = "" THEN ""
    ELSE IF RunLength(s) >= 3 /\ CharAt(s, 1) # "\n"
    THEN SubSeq(s, 1, keep) \o CollapseRuns(From(s, RunLength(s) + 1), keep)
    ELSE CharAt(s, 1) \o CollapseRuns(From(s, 2), keep)

\* deduplicated_patterns.append(v) under the tests of the loop body
AddVariant(patterns, acc, p, v) ==
    IF v # p /\ ~InSeq(v, patterns) /\ ~InSeq(v, acc) THEN Append(acc, v) ELSE acc

\* the body of `for p in list(patterns)`: known typos, runs to 2, runs to 1
TypoVariants(patterns, acc, p) ==
    IF CollapseRuns(p, 1) # CollapseRuns(p, 2)
    THEN AddVariant(patterns,
                    AddVariant(patterns, AddVariant(patterns, acc, p, ApplyTypos(p, 1)),
                               p, CollapseRuns(p, 2)),
                    p, CollapseRuns(p, 1))
    ELSE AddVariant(patterns, AddVariant(patterns, acc, p, ApplyTypos(p, 1)),
                    p, CollapseRuns(p, 2))

RECURSIVE TypoLoop(_, _, _)
TypoLoop(patterns, acc, k) ==
    IF k > Len(patterns) THEN acc
    ELSE TypoLoop(patterns, TypoVariants(patterns, acc, patterns[k]), k + 1)

\* pattern1: lowercased, '_' and '-' replaced by spaces, whitespace collapsed
Pattern1(query) ==
    Join(Words(ReplaceAll(ReplaceAll(Join(Words(Lower(query)), " "), "_", " "), "-", " ")), " ")

\* patterns 1 to 4
BasePatterns(pattern1) ==
    <<pattern1>>
    \o (IF Contains(pattern1, " ")
        THEN <<ReplaceAll(pattern1, " ", "-"), ReplaceAll(pattern1, " ", "_")>>
        ELSE <<>>)
    \o (IF ReplaceAll(pattern1, " ", "") # pattern1
        THEN <<ReplaceAll(pattern1, " ", "")>>
        ELSE <<>>)

\* for i in range(3, min(8, len(pattern_no_sep) - 2)), from i on
RECURSIVE SplitLoop(_, _, _)
SplitLoop(patterns, no_sep, i) ==
    IF i >= 8 \/ i >= Len(no_sep) - 2 THEN patterns
    ELSE SplitLoop(
            IF InSeq(SubSeq(no_sep, 1, i) \o " " \o From(no_sep, i + 1), patterns)
            THEN patterns
            ELSE patterns \o <<SubSeq(no_sep, 1, i) \o " " \o From(no_sep, i + 1),
                                SubSeq(no_sep, 1, i) \o "-" \o From(no_sep, i + 1)>>,
            no_sep, i + 1)

\* pattern 6: split variants of a long pattern without separators
WithSplits(patterns, no_sep) ==
    IF Len(no_sep) > 6 /\ ~Contains(no_sep, " ") THEN SplitLoop(patterns, no_sep, 3)
    ELSE patterns

\* the pattern list returned as it was built
Unique_KeepsAll(patterns, acc, k) == patterns

\* the non-empty patterns, first occurrences only
RECURSIVE Unique(_, _, _)
Unique(patterns, acc, k) ==
    IF k > Len(patterns) THEN acc
    ELSE Unique(patterns,
                IF patterns[k] # "" /\ ~InSeq(patterns[k], acc) THEN Append(acc, patterns[k])
                ELSE acc,
                k + 1)

\* patterns after pattern 5 is added
WithTypos(patterns) == patterns \o TypoLoop(patterns, <<>>, 1)

normalize_query(query) ==
    Take(Unique(WithSplits(WithTypos(BasePatterns(Pattern1(query))),
                           ReplaceAll(Pattern1(query), " ", "")),
                <<>>, 1),
         MaxPatterns)

(***************************************************************************)
(* The fiber store read by FiberSearchService: fibers, their lookup rows   *)
(* and their embeddings.  Columns that are NULL in every row are left out. *)
(***************************************************************************)
Fiber(id, name, class, subtype, applications, trade_names, active) ==
    [id |-> id, name |-> name, fiber_class |-> class, subtype |-> subtype,
     applications |-> applications, trade_names |-> trade_names, is_active |-> active]

FiberRows ==
    << Fiber(1, "Cotton", Some("Natural"), Some("Seed"), Some(<<"apparel", "towels">>), None, TRUE),
       Fiber(2, "Linen", Some("Natural"), Some("Bast"), Some(<<"apparel">>), None, TRUE),
       Fiber(3, "Jute", Some("Natural"), Some("Bast"), Some(<<"sacks">>), None, TRUE),
       Fiber(4, "Wool", Some("Natural"), Some("Hair"), Some(<<"knitwear">>), None, TRUE),
       Fiber(5, "Silk", Some("Natural"), Some("Secretion"), None, None, TRUE),
       Fiber(6, "Polyester", Some("Synthetic"), None, Some(<<"cotton blends", "bottles">>), None, TRUE),
       Fiber(7, "Nylon", Some("Synthetic"), None, Some(<<"ropes">>), None, TRUE),
       Fiber(8, "Acrylic", Some("Synthetic"), None, None, None, TRUE),
       Fiber(9, "Spandex", Some("Synthetic"), None, None, Some(<<"Lycra">>), TRUE),
       Fiber(10, "Rayon", Some("Regenerated"), None, Some(<<"cotton substitute">>), None, FALSE) >>

FiberIds == 1..Len(FiberRows)

\* the rows of the lookup tables fiber_classes and fiber_subtypes
FiberClassNames == <<"Natural", "Synthetic", "Regenerated">>
FiberSubtypeNames == <<"Seed", "Bast", "Hair", "Secretion">>

\* the content types under which every fiber is embedded
ContentTypes == {"name", "complete"}

\* 100 * (1 - cosine distance) between the query embedding and the embedding of
\* (fiber, content type); which of these tables holds is the provider's choice
Similarity(profile, id, content_type) ==
    IF profile = "dense"
    THEN (IF content_type = "name" THEN 95 - id ELSE 60 - id)
    ELSE IF profile = "sparse"
    THEN (IF id = 1 THEN (IF content_type = "name" THEN 82 ELSE 50)
          ELSE IF id = 2 THEN (IF content_type = "name" THEN 40 ELSE 70)
          ELSE IF id = 3 THEN (IF content_type = "name" THEN 50 ELSE 20)
          ELSE IF id = 10 THEN 99
          ELSE 10)
    ELSE 10

Profiles == {"dense", "sparse", "none"}

(***************************************************************************)
(* The session of one request: PostgreSQL rejects every statement of a     *)
(* transaction in which a statement failed, until it is rolled back.       *)
(***************************************************************************)
NewSession == [tx |-> "active", events |-> <<>>]

\* one statement: it fails if the store fails it or the transaction is aborted
Execute(sess, statement, fails) ==
    IF sess.tx = "aborted"
    THEN [tx |-> "aborted", events |-> Append(sess.events, <<statement, "rejected">>)]
    ELSE IF fails
    THEN [tx |-> "aborted", events |-> Append(sess.events, <<statement, "failed">>)]
    ELSE [tx |-> "active", events |-> Append(sess.events, <<statement, "ok">>)]

\* whether the last statement of the session raised
Raised(sess) == sess.events[Len(sess.events)][2] # "ok"

\* self.db.rollback()
SessionRollback(sess) == [tx |-> "active", events |-> Append(sess.events, <<"rollback", "ok">>)]

(***************************************************************************)
(* FiberSearchService.keyword_search                                       *)
(***************************************************************************)
\* text LIKE '%pattern%': '_' in the pattern matches any one character
Like(value, pattern) ==
    \E i \in 0..(Len(value) - Len(pattern)) :
        \A k \in 1..Len(pattern) :
            CharAt(pattern, k) = "_" \/ CharAt(pattern, k) = CharAt(value, i + k)

\* func.lower(column).like(term): NULL never matches
TextMatches(column, pattern) == ~IsNone(column) /\ Like(Lower(Val(column)), pattern)

\* coalesce(array_to_string(column, ' '), '') ILIKE term
ArrayMatches(column, pattern) ==
    Like(Lower(IF IsNone(column) THEN "" ELSE Join(Val(column), " ")), pattern)

\* the OR of the search conditions of one fiber row over all patterns
RowMatches(row, patterns) ==
    \E k \in 1..Len(patterns) :
        \/ TextMatches(Some(row.name), patterns[k])
        \/ ArrayMatches(row.trade_names, patterns[k])
        \/ ArrayMatches(row.applications, patterns[k])

\* the ids, in table order, of the rows of a table that satisfy a test
RECURSIVE SelectIds(_, _)
SelectIds(ids, k) ==
    IF k > Len(FiberRows) THEN <<>>
    ELSE (IF k \in ids THEN <<k>> ELSE <<>>) \o SelectIds(ids, k + 1)

\* the SELECT of keyword_search: active rows matching some pattern, LIMIT limit
KeywordSelect(query, limit) ==
    Take(SelectIds({id \in FiberIds : /\ RowMatches(FiberRows[id], normalize_query(query))
                                      /\ FiberRows[id].is_active}, 1),
         limit)

\* keyword_search after the SELECT: an empty result runs the sample query
KeywordAfterSelect(sess, hits) ==
    IF Raised(sess) THEN [result |-> <<>>, sess |-> sess]
    ELSE IF hits = <<>> THEN [result |-> <<>>, sess |-> Execute(sess, "kw_sample", FALSE)]
    ELSE [result |-> hits, sess |-> sess]

\* keyword_search after the count of active fibers
KeywordAfterCount(sess, hits) ==
    IF Raised(sess) THEN [result |-> <<>>, sess |-> sess]
    ELSE KeywordAfterSelect(Execute(sess, "kw_select", FALSE), hits)

\* keyword_search: every exception is caught and turned into the empty list
keyword_search(sess, hits, faults) ==
    KeywordAfterCount(Execute(sess, "kw_count", "keyword" \in faults), hits)

(***************************************************************************)
(* FiberSearchService.semantic_search                                      *)
(***************************************************************************)
\* [{"fiber": fiber, "similarity": s, "content_type": t} for fiber in fibers]
RECURSIVE Tagged(_, _, _)
Tagged(fibers, similarity, content_type) ==
    IF fibers = <<>> THEN <<>>
    ELSE <<[fiber |-> Head(fibers), similarity |-> similarity, content_type |-> content_type]>>
            \o Tagged(Tail(fibers), similarity, content_type)

\* the keyword fallback of semantic_search
KeywordFallback(kw, similarity, content_type) ==
    [result |-> Tagged(kw.result, similarity, content_type), sess |-> kw.sess, raised |-> FALSE]

\* the rows of ranked_embeddings: active fiber, similarity >= threshold
RankedRows(profile, threshold) ==
    {r \in [fiber : FiberIds, content_type : ContentTypes] :
        /\ FiberRows[r.fiber].is_active
        /\ Similarity(profile, r.fiber, r.content_type) >= threshold}

\* how the store orders rows of equal similarity: which content type ranks
\* first within a fiber, and whether the lower or the higher id comes first
TieOrders == {"first", "last"}

\* row r comes before row o when their similarities are equal
BeforeOnTie(r, o, ties) ==
    IF r.fiber # o.fiber
    THEN (IF ties = "first" THEN r.fiber < o.fiber ELSE r.fiber > o.fiber)
    ELSE r.content_type = (IF ties = "first" THEN "name" ELSE "complete")

\* row r comes before every other row of the set
Leads(r, rows, profile, ties) ==
    \A o \in rows \ {r} :
        \/ Similarity(profile, o.fiber, o.content_type)
              < Similarity(profile, r.fiber, r.content_type)
        \/ /\ Similarity(profile, o.fiber, o.content_type)
                = Similarity(profile, r.fiber, r.content_type)
           /\ BeforeOnTie(r, o, ties)

\* every ranked row is kept, whatever its rank
BestRows_AnyRank(profile, threshold, ties) == RankedRows(profile, threshold)

\* rank = 1: the row of its fiber with the least distance
BestRows(profile, threshold, ties) ==
    {r \in RankedRows(profile, threshold) :
        Leads(r, {o \in RankedRows(profile, threshold) : o.fiber = r.fiber}, profile, ties)}

\* ORDER BY similarity DESC
RECURSIVE OrderBySimilarity(_, _, _)
OrderBySimilarity(rows, profile, ties) ==
    IF rows = {} THEN <<>>
    ELSE <<CHOOSE r \in rows : Leads(r, rows, profile, ties)>>
         \o OrderBySimilarity(rows \ {CHOOSE r \in rows : Leads(r, rows, profile, ties)},
                              profile, ties)

\* the result list built from the rows of the similarity query
RECURSIVE SemanticResults(_, _)
SemanticResults(rows, profile) ==
    IF rows = <<>> THEN <<>>
    ELSE <<[fiber |-> rows[1].fiber,
            similarity |-> Similarity(profile, rows[1].fiber, rows[1].content_type),
            content_type |-> rows[1].content_type]>>
            \o SemanticResults(Tail(rows), profile)

\* the similarity query of semantic_search
SimilarityQuery(profile, threshold, limit, ties) ==
    SemanticResults(Take(OrderBySimilarity(BestRows(profile, threshold, ties), profile, ties),
                         limit),
                    profile)

\* semantic_search after the similarity query was executed
SemanticAfterQuery(sess, hits, env, rows) ==
    IF Raised(sess)
    THEN KeywordFallback(keyword_search(SessionRollback(sess), hits, env.faults),
                         80, "keyword_fallback")
    ELSE [result |-> rows, sess |-> sess, raised |-> FALSE]

\* a failing embedding call is raised to the caller
SemanticAfterCount_Propagates(sess, hits, env, rows) ==
    IF Raised(sess) \/ env.embeddings = "none"
    THEN KeywordFallback(keyword_search(sess, hits, env.faults), 80, "keyword_fallback")
    ELSE IF env.provider = "failing"
    THEN [result |-> <<>>, sess |-> sess, raised |-> TRUE]
    ELSE SemanticAfterQuery(Execute(sess, "similarity", "similarity" \in env.faults),
                            hits, env, rows)

\* semantic_search after the count of fiber_embeddings
SemanticAfterCount(sess, hits, env, rows) ==
    IF Raised(sess) \/ env.embeddings = "none"
    THEN KeywordFallback(keyword_search(sess, hits, env.faults), 80, "keyword_fallback")
    ELSE IF env.provider = "failing"
    THEN KeywordFallback(keyword_search(SessionRollback(sess), hits, env.faults),
                         80, "keyword_fallback")
    ELSE SemanticAfterQuery(Execute(sess, "similarity", "similarity" \in env.faults),
                            hits, env, rows)

\* semantic_search after the check query on fiber_embeddings
SemanticAfterCheck(sess, hits, env, rows) ==
    IF Raised(sess)
    THEN KeywordFallback(keyword_search(sess, hits, env.faults), 80, "keyword_fallback")
    ELSE SemanticAfterCount(Execute(sess, "emb_count", FALSE), hits, env, rows)

\* FiberSearchService.semantic_search; hits is what the keyword SELECT returns
\* for the query and limit of the call, rows what the similarity query returns
\* for its query, threshold and limit
semantic_search(sess, hits, env, rows) ==
    IF env.provider = "unconfigured"
    THEN KeywordFallback(keyword_search(sess, hits, env.faults), 100, "keyword_match")
    ELSE SemanticAfterCheck(Execute(sess, "emb_check", "count" \in env.faults),
                            hits, env, rows)

(***************************************************************************)
(* FiberSearchService.detect_query_intent                                  *)
(***************************************************************************)
common_fibers ==
    << "cotton", "polyester", "nylon", "wool", "silk", "rayon", "acrylic",
       "linen", "hemp", "bamboo", "viscose", "spandex", "lycra", "modal",
       "tencel", "kevlar", "nomex", "teflon", "polypropylene", "jute",
       "aramid", "carbon", "glass", "elastane", "acetate", "lyocell" >>

\* the first vocabulary name that occurs in the lowercased query, or None
RECURSIVE FirstFiber(_, _)
FirstFiber(query_lower, k) ==
    IF k > Len(common_fibers) THEN None
    ELSE IF Contains(query_lower, common_fibers[k]) THEN Some(common_fibers[k])
    ELSE FirstFiber(query_lower, k + 1)

\* any(word in query_lower for word in words)
AnyIn(query_lower, words) == \E w \in words : Contains(query_lower, w)

\* the keyword sets of the seven tests, in the order of the code
IntentKeywords ==
    << <<"property_inquiry", {"property", "properties", "characteristic", "specifications"}>>,
       <<"manufacturing_inquiry", {"spinning", "manufacturing", "production", "process", "made", "produce", "treatment", "dyeing", "dye"}>>,
       <<"application_inquiry", {"use", "used for", "application", "suitable for", "best for", "find", "where"}>>,
       <<"comparison", {"compare", "difference between", "vs", "versus", "better than"}>>,
       <<"identification", {"identify", "what is", "what are", "define", "explain", "tell me about"}>>,
       <<"category_inquiry", {"natural", "synthetic", "cellulosic", "protein", "mineral", "fiber", "fibers"}>>,
       <<"structure_image_request", {"structure", "image", "diagram", "picture", "visual", "molecular structure", "chemical structure", "show me"}>> >>

\* the type kept when a test that matched is not overwritten by a later one
IntentType_FirstWins(query_lower) ==
    LET matching == {k \in 1..Len(IntentKeywords) : AnyIn(query_lower, IntentKeywords[k][2])}
    IN  IF matching = {} THEN "general"
        ELSE IntentKeywords[CHOOSE k \in matching : \A j \in matching : k <= j][1]

\* the keyword sets are tested in this order and the last match wins
IntentType(query_lower) ==
    IF AnyIn(query_lower, {"structure", "image", "diagram", "picture", "visual",
                           "molecular structure", "chemical structure", "show me"})
    THEN "structure_image_request"
    ELSE IF AnyIn(query_lower, {"natural", "synthetic", "cellulosic", "protein",
                                "mineral", "fiber", "fibers"})
    THEN "category_inquiry"
    ELSE IF AnyIn(query_lower, {"identify", "what is", "what are", "define", "explain",
                                "tell me about"})
    THEN "identification"
    ELSE IF AnyIn(query_lower, {"compare", "difference between", "vs", "versus",
                                "better than"})
    THEN "comparison"
    ELSE IF AnyIn(query_lower, {"use", "used for", "application", "suitable for",
                                "best for", "find", "where"})
    THEN "application_inquiry"
    ELSE IF AnyIn(query_lower, {"spinning", "manufacturing", "production", "process",
                                "made", "produce", "treatment", "dyeing", "dye"})
    THEN "manufacturing_inquiry"
    ELSE IF AnyIn(query_lower, {"property", "properties", "characteristic",
                                "specifications"})
    THEN "property_inquiry"
    ELSE "general"

\* the intent built from the fiber name and the type found
Intent(query, fiber_name, type) ==
    [type |-> type,
     fiber_name |-> fiber_name,
     requires_search |-> ~IsNone(fiber_name) \/ type # "general",
     search_terms |-> IF IsNone(fiber_name) THEN <<query>> ELSE <<Val(fiber_name)>>,
     needs_images |-> type = "structure_image_request"]

detect_query_intent(query) ==
    Intent(query, FirstFiber(Lower(query), 1), IntentType(Lower(query)))

(***************************************************************************)
(* FiberSearchService.search_fibers_by_category                            *)
(***************************************************************************)
\* the category table, flattened in iteration order: <<category_type, keyword>>
CategoryKeywords ==
    << <<"class", "natural">>, <<"class", "synthetic">>, <<"class", "animal">>,
       <<"class", "regenerated">>, <<"class", "mineral">>,
       <<"subtype", "bast">>, <<"subtype", "leaf">>, <<"subtype", "seed">>,
       <<"subtype", "hair">>, <<"subtype", "secretion">>, <<"subtype", "protein">>,
       <<"subtype", "ester">>, <<"subtype", "cellulose_bast">>,
       <<"subtype", "cellulose_leaf">>, <<"subtype", "cellulose_seed">>,
       <<"subtype", "cellulose_ester">>, <<"subtype", "regenerated_protein">>,
       <<"subtype", "cellulose">>, <<"subtype", "cellulosic">>,
       <<"synthetic_type", "thermoplastic">>, <<"synthetic_type", "thermoset">>,
       <<"synthetic_type", "melting">>, <<"synthetic_type", "non melting">>,
       <<"polymerization_type", "polymerization">>,
       <<"polymerization_type", "polycondensation">>,
       <<"polymerization_type", "polyaddition">>,
       <<"polymerization_type", "chain-growth">>,
       <<"polymerization_type", "step-growth">>,
       <<"polymerization_type", "radical">>,
       <<"polymerization_type", "ring-opening">> >>

\* keyword.rstrip('ic'): trailing characters 'i' and 'c' are removed
RECURSIVE RStripIC(_)
RStripIC(s) ==
    IF s # "" /\ CharAt(s, Len(s)) \in {"i", "c"}
    THEN RStripIC(SubSeq(s, 1, Len(s) - 1))
    ELSE s

\* the names of the lookup table of a category type
LookupNames(category_type) ==
    IF category_type = "class" THEN FiberClassNames
    ELSE IF category_type = "subtype" THEN FiberSubtypeNames
    ELSE <<>>

\* the lookup rows whose name matches the keyword or the stripped keyword
RECURSIVE MatchingCategories(_, _)
MatchingCategories(names, keyword) ==
    IF names = <<>> THEN <<>>
    ELSE (IF \/ Like(Lower(Head(names)), keyword)
             \/ Like(Lower(Head(names)), RStripIC(keyword))
          THEN <<Head(names)>> ELSE <<>>)
            \o MatchingCategories(Tail(names), keyword)

\* the category column of a fiber row that a category type joins on
CategoryOfRow(row, category_type) ==
    IF category_type = "class" THEN row.fiber_class
    ELSE IF category_type = "subtype" THEN row.subtype
    ELSE None

\* get_fibers_by_class / get_fibers_by_subtype / ...: active fibers of a category
get_fibers_by(category_type, name, limit) ==
    Take(SelectIds({id \in FiberIds :
                      /\ FiberRows[id].is_active
                      /\ ~IsNone(CategoryOfRow(FiberRows[id], category_type))
                      /\ Lower(Val(CategoryOfRow(FiberRows[id], category_type)))
                            = Lower(name)}, 1),
         limit)

\* fibers appended while skipping those already seen
RECURSIVE AppendUnseen(_, _)
AppendUnseen(all_fibers, fibers) ==
    IF fibers = <<>> THEN all_fibers
    ELSE AppendUnseen(IF InSeq(Head(fibers), all_fibers) THEN all_fibers
                      ELSE Append(all_fibers, Head(fibers)),
                      Tail(fibers))

\* the fibers of all matching categories, without duplicates
RECURSIVE FibersOfCategories(_, _, _, _)
FibersOfCategories(category_type, categories, limit, all_fibers) ==
    IF categories = <<>> THEN all_fibers
    ELSE FibersOfCategories(category_type, Tail(categories), limit,
             AppendUnseen(all_fibers, get_fibers_by(category_type, Head(categories), limit)))

\* the loop over the category keywords, from keyword k on
RECURSIVE CategoryLoop(_, _, _)
CategoryLoop(query_lower, limit, k) ==
    IF k > Len(CategoryKeywords)
    THEN [fibers |-> <<>>, category_type |-> None, category_name |-> None]
    ELSE IF /\ Contains(query_lower, CategoryKeywords[k][2])
            /\ FibersOfCategories(CategoryKeywords[k][1],
                   MatchingCategories(LookupNames(CategoryKeywords[k][1]),
                                      CategoryKeywords[k][2]),
                   limit, <<>>) # <<>>
    THEN [fibers |-> Take(FibersOfCategories(CategoryKeywords[k][1],
                              MatchingCategories(LookupNames(CategoryKeywords[k][1]),
                                                 CategoryKeywords[k][2]),
                              limit, <<>>), limit),
          category_type |-> Some(CategoryKeywords[k][1]),
          category_name |-> Some(CategoryKeywords[k][2])]
    ELSE CategoryLoop(query_lower, limit, k + 1)

\* the resolver reading the query as typed, capitals included
search_fibers_by_category_AsTyped(query, limit) == CategoryLoop(query, limit, 1)

search_fibers_by_category(query, limit) == CategoryLoop(Lower(query), limit, 1)

(***************************************************************************)
(* Inputs of the knowledge-base operations.                                *)
(***************************************************************************)
RECURSIVE Repeat(_, _)
Repeat(s, n) == IF n = 0 THEN "" ELSE s \o Repeat(s, n - 1)

ShortText == "Cotton is a natural seed fiber."
\* two paragraphs of 480 and 490 characters: longer than chunk_size together
LongText == Repeat("Cotton is soft. ", 30) \o "\n\n" \o Repeat("Wool is warm. ", 35)

Texts == {"", ShortText, LongText}

\* chunk_document on the texts of the model, evaluated once
ChunksOf == [t \in Texts |-> chunk_document(t)]

Providers == {"unconfigured", "failing", "working"}

Admin == 1

\* the arguments of create_document_with_embeddings
CreateArgs ==
    [title : {"Cotton basics"}, content : Texts, category : {None, Some("fibers")},
     subcategory : {None}, fiber_ids : {None}, tags : {None}, is_published : {FALSE}]

\* the arguments of update_document: no argument, each argument alone, all together
NoArgs ==
    [title |-> None, content |-> None, category |-> None, subcategory |-> None,
     fiber_ids |-> None, tags |-> None, is_published |-> None]

UpdateArgs ==
    {NoArgs}
    \cup {[NoArgs EXCEPT !.title = Some("Cotton care")]}
    \cup {[NoArgs EXCEPT !.content = Some(t)] : t \in Texts}
    \cup {[NoArgs EXCEPT !.category = Some("care")]}
    \cup {[NoArgs EXCEPT !.subcategory = Some("washing")]}
    \cup {[NoArgs EXCEPT !.fiber_ids = Some(<<1>>)]}
    \cup {[NoArgs EXCEPT !.tags = Some(<<"eco">>)]}
    \cup {[NoArgs EXCEPT !.is_published = Some(TRUE)]}
    \cup {[title |-> Some("Cotton care"), content |-> Some(t), category |-> Some("care"),
           subcategory |-> Some("washing"), fiber_ids |-> Some(<<1>>),
           tags |-> Some(<<"eco">>), is_published |-> Some(TRUE)] : t \in Texts}

(***************************************************************************)
(* The session: what a transaction sees and what commit / rollback leave.  *)
(***************************************************************************)
Committed == [documents |-> documents, kb_embeddings |-> kb_embeddings, audit_log |-> audit_log]

\* a rollback that keeps what the failed call had already written
Rollback_KeepsPending(committed, pending) == pending

\* self.db.rollback(): the pending changes are dropped
Rollback(committed, pending) == committed

\* KnowledgeBaseService.generate_embeddings: one batched provider call, which
\* returns one embedding per text or raises (no client, provider error)
generate_embeddings(texts, provider) ==
    IF provider = "working" THEN [ok |-> TRUE, n |-> Len(texts)]
    ELSE [ok |-> FALSE, n |-> 0]

\* the KnowledgeBaseEmbedding rows added for enumerate(zip(chunks, embeddings))
EmbeddingRows(id, chunks, n) ==
    {[document_id |-> id, chunk_text |-> chunks[i], chunk_index |-> i - 1] :
        i \in 1..(IF n < Len(chunks) THEN n ELSE Len(chunks))}

\* session.add of one KnowledgeBaseAuditLog row
AddAudit(s, id, action, changes) ==
    [s EXCEPT !.audit_log = Append(@, [document_id |-> id, action |-> action,
                                       performed_by |-> Admin, changes |-> changes])]

\* session.add of the embedding rows of a document
AddEmbeddings(s, id, chunks, n) ==
    [s EXCEPT !.kb_embeddings = @ \cup EmbeddingRows(id, chunks, n)]

\* the KnowledgeBaseDocument row built by create_document_with_embeddings
NewDocument(a) ==
    [title |-> a.title, content |-> a.content, category |-> a.category,
     subcategory |-> a.subcategory,
     fiber_ids |-> IF IsNone(a.fiber_ids) THEN <<>> ELSE Val(a.fiber_ids),
     tags |-> IF IsNone(a.tags) THEN <<>> ELSE Val(a.tags),
     is_published |-> a.is_published, created_by |-> Admin, updated_by |-> Admin]

\* session.add(document); session.flush()
AddDocument(s, id, a) == [s EXCEPT !.documents = (id :> NewDocument(a)) @@ @]

\* create_document_with_embeddings from the embedding step on; s1 holds the new row
CreateEmbedAndLog(s, s1, id, a, chunks, e) ==
    IF ~e.ok THEN [ok |-> FALSE, calls |-> 1, state |-> Rollback(s, s1)]
    ELSE [ok |-> TRUE, calls |-> 1,
          state |-> AddAudit(AddEmbeddings(s1, id, chunks, e.n), id, "created",
                             [title |-> a.title, category |-> a.category])]

\* KnowledgeBaseService.create_document_with_embeddings
create_document_with_embeddings(s, id, a, provider) ==
    IF ChunksOf[a.content] # <<>> /\ provider # "unconfigured"
    THEN CreateEmbedAndLog(s, AddDocument(s, id, a), id, a, ChunksOf[a.content],
                           generate_embeddings(ChunksOf[a.content], provider))
    ELSE [ok |-> TRUE, calls |-> 0,
          state |-> AddAudit(AddDocument(s, id, a), id, "created",
                             [title |-> a.title, category |-> a.category])]

\* a given argument counts as a change without comparing it to the row
ChangedKeys_NoCompare(document, a) ==
    {k \in {"title", "content", "category", "is_published"} : ~IsNone(a[k])}

\* the keys of the changes dict built by update_document
ChangedKeys(document, a) ==
    {k \in {"title", "content", "category", "is_published"} :
        ~IsNone(a[k]) /\
        (IF k = "category" THEN a[k] # document[k] ELSE Val(a[k]) # document[k])}

\* the changes dict: {old, new} per changed key, lengths only for content
Changes(document, a, keys) ==
    [k \in keys |->
        IF k = "content" THEN [old |-> Len(document.content), new |-> Len(Val(a.content))]
        ELSE IF k = "category" THEN [old |-> document.category, new |-> Val(a.category)]
        ELSE [old |-> document[k], new |-> Val(a[k])]]

\* the field assignments of update_document
SetFields(document, a, keys) ==
    [document EXCEPT
        !.title = IF "title" \in keys THEN Val(a.title) ELSE @,
        !.content = IF "content" \in keys THEN Val(a.content) ELSE @,
        !.category = IF "category" \in keys THEN a.category ELSE @,
        !.subcategory = IF ~IsNone(a.subcategory) THEN a.subcategory ELSE @,
        !.fiber_ids = IF ~IsNone(a.fiber_ids) THEN Val(a.fiber_ids) ELSE @,
        !.tags = IF ~IsNone(a.tags) THEN Val(a.tags) ELSE @,
        !.is_published = IF "is_published" \in keys THEN Val(a.is_published) ELSE @,
        !.updated_by = Admin]

\* delete(KnowledgeBaseEmbedding).where(document_id == id)
DeleteEmbeddings(s, id) == [s EXCEPT !.kb_embeddings = {r \in @ : r.document_id # id}]

\* the audit entry of update_document, written only if changes is non-empty
UpdateAudit(s1, id, changes) ==
    IF DOMAIN changes # {} THEN AddAudit(s1, id, "updated", changes) ELSE s1

\* update_document once the old rows are deleted (s2): embed, insert, log
Regenerate(s, s2, id, chunks, e, changes) ==
    IF chunks = <<>> THEN [ok |-> TRUE, calls |-> 0, state |-> UpdateAudit(s2, id, changes)]
    ELSE IF ~e.ok THEN [ok |-> FALSE, calls |-> 1, state |-> Rollback(s, s2)]
    ELSE [ok |-> TRUE, calls |-> 1,
          state |-> UpdateAudit(AddEmbeddings(s2, id, chunks, e.n), id, changes)]

\* update_document once the fields are assigned (s1)
UpdateFound(s, s1, id, provider, changes) ==
    IF "content" \in DOMAIN changes /\ provider # "unconfigured"
    THEN Regenerate(s, DeleteEmbeddings(s1, id), id, ChunksOf[s1.documents[id].content],
                    generate_embeddings(ChunksOf[s1.documents[id].content], provider), changes)
    ELSE [ok |-> TRUE, calls |-> 0, state |-> UpdateAudit(s1, id, changes)]

\* KnowledgeBaseService.update_document
update_document(s, id, a, provider) ==
    IF id \notin DOMAIN s.documents
    THEN [ok |-> FALSE, calls |-> 0, state |-> Rollback(s, s)]
    ELSE UpdateFound(s,
                     [s EXCEPT !.documents[id] =
                         SetFields(@, a, ChangedKeys(s.documents[id], a))],
                     id, provider,
                     Changes(s.documents[id], a, ChangedKeys(s.documents[id], a)))

(***************************************************************************)
(* The knowledge-base requests (routes.py: create / update document).      *)
(***************************************************************************)
CreateDocument ==
    /\ kb_ops < MaxOps
    /\ next_doc_id <= MaxDocs
    /\ \E a \in CreateArgs, provider \in Providers :
         LET r == create_document_with_embeddings(Committed, next_doc_id, a, provider)
         IN  /\ documents' = r.state.documents
             /\ kb_embeddings' = r.state.kb_embeddings
             /\ audit_log' = r.state.audit_log
             /\ kb_last' = [op |-> "create", doc |-> next_doc_id, ok |-> r.ok,
                            provider |-> provider, args |-> a, calls |-> r.calls]
    /\ next_doc_id' = next_doc_id + 1
    /\ kb_ops' = kb_ops + 1
    /\ UNCHANGED notKbVars

UpdateDocument ==
    /\ kb_ops < MaxOps
    /\ \E id \in 1..MaxDocs, a \in UpdateArgs, provider \in Providers :
         LET r == update_document(Committed, id, a, provider)
         IN  /\ documents' = r.state.documents
             /\ kb_embeddings' = r.state.kb_embeddings
             /\ audit_log' = r.state.audit_log
             /\ kb_last' = [op |-> "update", doc |-> id, ok |-> r.ok,
                            provider |-> provider, args |-> a, calls |-> r.calls]
    /\ kb_ops' = kb_ops + 1
    /\ UNCHANGED <<next_doc_id, notKbVars>>

InitKB ==
    /\ documents = <<>>
    /\ kb_embeddings = {}
    /\ audit_log = <<>>
    /\ next_doc_id = 1
    /\ kb_ops = 0
    /\ kb_last = [op |-> "none", doc |-> 0, ok |-> TRUE, provider |-> "working",
                  args |-> NoArgs, calls |-> 0]

NextKB == CreateDocument \/ UpdateDocument

(***************************************************************************)
(* Inputs of the chatbot requests.                                         *)
(***************************************************************************)
Messages ==
    {"list all natural fibers", "What is cotton", "hello", "compare its properties",
     "which mineral fibers", "is hemp strong"}

\* bot_response: what the language model answers
BotResponse == "Here is what I know."

\* store statements that the environment may fail during one request
Faults ==
    {{}, {"count"}, {"similarity"}, {"keyword"}, {"similarity", "keyword"},
     {"count", "keyword"}, {"kb"}}

\* the environment of one request; environments that differ only in a choice
\* that no step of the request reads are represented once
Envs ==
    {e \in [provider : Providers, embeddings : {"none", "some"}, profile : Profiles,
            faults : Faults] :
        /\ (e.provider = "unconfigured" \/ "count" \in e.faults) => e.embeddings = "some"
        /\ (\/ e.provider # "working" \/ e.embeddings = "none"
            \/ e.faults \cap {"count", "similarity"} # {}) => e.profile = "none"
        /\ e.provider = "unconfigured" => e.faults \subseteq {"keyword"}
        /\ e.faults \cap {"similarity", "kb"} # {} => e.provider = "working"
        /\ "similarity" \in e.faults => e.embeddings = "some"}

\* the fiber names that intent detection can find in a conversation history
HistoryFibers ==
    {Val(detect_query_intent(m).fiber_name) :
        m \in {x \in Messages \cup {BotResponse} : ~IsNone(detect_query_intent(x).fiber_name)}}

\* the search strings that a request can pass to the searches
SearchQueries ==
    Messages \cup HistoryFibers \cup {f \o " " \o m : f \in HistoryFibers, m \in Messages}

IntentOf == [m \in Messages |-> detect_query_intent(m)]

\* the words that make a message a listing query
ListingWords == {"all", "list", "example", "examples", "what are", "show", "which"}

CategoryResultOf == [m \in Messages |-> search_fibers_by_category(m, 20)]

KeywordHitsOf == [q \in SearchQueries |-> KeywordSelect(q, 15)]

ListingOf == [m \in Messages |-> AnyIn(Lower(m), ListingWords)]

\* what the similarity query of the request returns under each profile
SimilarityHitsOf == [p \in Profiles |-> SimilarityQuery(p, 45, 15, "first")]

(***************************************************************************)
(* chat_with_bot (routes.py)                                               *)
(***************************************************************************)
\* conversation_context: the contents of the last 6 stored messages
RECURSIVE Contents(_)
Contents(messages) ==
    IF messages = <<>> THEN <<>> ELSE <<Head(messages).content>> \o Contents(Tail(messages))

\* the contents of every stored message
ConversationContext_Whole(messages) == Join(Contents(messages), " ")

ConversationContext(messages) ==
    Join(Contents(SubSeq(messages, IF Len(messages) > 6 THEN Len(messages) - 5 ELSE 1,
                         Len(messages))), " ")

is_listing_query(message) == ListingOf[message]

\* the search string after the history carry-forward
SearchQuery(message, intent, context, historical_fiber) ==
    IF IsNone(intent.fiber_name) /\ context # "" /\ ~IsNone(historical_fiber)
    THEN Val(historical_fiber) \o " " \o message
    ELSE intent.search_terms[1]

\* every keyword hit appended, whether its fiber is already there or not
Merge_NoDuplicateCheck(search_results, keyword_results) ==
    search_results \o Tagged(keyword_results, 75, "keyword_match")

\* keyword hits appended to the search results, skipping fiber ids already there
RECURSIVE Merge(_, _)
Merge(search_results, keyword_results) ==
    IF keyword_results = <<>> THEN search_results
    ELSE Merge(IF \E i \in 1..Len(search_results) :
                     search_results[i].fiber = Head(keyword_results)
               THEN search_results
               ELSE Append(search_results,
                           [fiber |-> Head(keyword_results), similarity |-> 75,
                            content_type |-> "keyword_match"]),
               Tail(keyword_results))

\* the keyword supplement runs for every short result list
NeedsSupplement_IgnoresCategory(category_fibers, search_results) ==
    Len(search_results) < 8

\* the guard of the supplementary keyword search
NeedsSupplement(category_fibers, search_results) ==
    category_fibers = <<>> /\ Len(search_results) < 8

\* what the retrieval part of a request did
Retrieval(sess, raised, query, results, called, fibers, checked, semantic, keyword) ==
    [sess |-> sess, raised |-> raised, search_query |-> query, search_results |-> results,
     category_called |-> called, category_fibers |-> fibers,
     history_checked |-> checked, semantic |-> semantic, keyword |-> keyword]

\* a request that searches nothing
NoRetrieval(sess) == Retrieval(sess, FALSE, "", <<>>, FALSE, <<>>, FALSE, None, None)

\* the supplementary keyword search and the merge of its hits
Supplemented(r, kw) ==
    [r EXCEPT !.sess = kw.sess,
              !.keyword = Some([query |-> r.search_query, result |-> kw.result]),
              !.search_results = Merge(r.search_results, kw.result)]

Supplement(r, env) ==
    IF ~r.raised /\ NeedsSupplement(r.category_fibers, r.search_results)
    THEN Supplemented(r, keyword_search(r.sess, KeywordHitsOf[r.search_query], env.faults))
    ELSE r

\* the semantic search of the final search string
AfterSemantic(sem, search_query, category_called, history_checked) ==
    Retrieval(sem.sess, sem.raised, search_query, sem.result, category_called, <<>>,
              history_checked, Some([query |-> search_query, result |-> sem.result]), None)

SemanticBranch(sess, env, search_query, category_called, history_checked) ==
    AfterSemantic(semantic_search(sess, KeywordHitsOf[search_query], env,
                                  SimilarityHitsOf[env.profile]),
                  search_query, category_called, history_checked)

\* the branch of the request taken when intent.requires_search holds
Search(sess, message, intent, context, historical_fiber, env) ==
    IF is_listing_query(message) /\ CategoryResultOf[message].fibers # <<>>
    THEN Retrieval(Execute(sess, "category_select", FALSE), FALSE, intent.search_terms[1],
                   Tagged(CategoryResultOf[message].fibers, 100,
                          Val(CategoryResultOf[message].category_type) \o "_match"),
                   TRUE, CategoryResultOf[message].fibers, FALSE, None, None)
    ELSE SemanticBranch(IF is_listing_query(message)
                        THEN Execute(sess, "category_select", FALSE) ELSE sess,
                        env,
                        SearchQuery(message, intent, context, historical_fiber),
                        is_listing_query(message),
                        IsNone(intent.fiber_name) /\ context # "")

\* the retrieval that searches whatever the intent says
Retrieve_AlwaysSearches(sess, message, context, historical_fiber, env) ==
    Supplement(Search(sess, message, IntentOf[message], context, historical_fiber, env), env)

\* the fiber retrieval of a request
Retrieve(sess, message, context, historical_fiber, env) ==
    IF IntentOf[message].requires_search
    THEN Supplement(Search(sess, message, IntentOf[message], context, historical_fiber, env),
                    env)
    ELSE NoRetrieval(sess)

\* KnowledgeBaseService.semantic_search as the request runs it: the session
\* after the call; every exception is caught and turned into the empty list
kb_semantic_search(sess, env) ==
    IF env.provider = "working"
    THEN Execute(sess, "kb_similarity", "kb" \in env.faults)
    ELSE sess

\* the request from the knowledge-base search to the commit
Answer(r, sess, env) ==
    IF env.provider # "working"
    THEN [status |-> 500, step |-> "llm", sess |-> SessionRollback(sess)]
    ELSE IF Raised(Execute(sess, "conversation_update", FALSE))
    THEN [status |-> 500, step |-> "commit",
          sess |-> SessionRollback(Execute(sess, "conversation_update", FALSE))]
    ELSE [status |-> 200, step |-> "done",
          sess |-> Execute(Execute(sess, "conversation_update", FALSE),
                           "conversation_refresh", FALSE)]

\* the request after the fiber retrieval: a non-empty result list reaches the
\* call of fiber_service.extract_related_videos, which FiberSearchService lacks
AfterRetrieval(r, env) ==
    IF r.raised
    THEN [status |-> 500, step |-> "retrieval", sess |-> SessionRollback(r.sess)]
    ELSE IF r.search_results # <<>>
    THEN [status |-> 500, step |-> "extract_related_videos",
          sess |-> SessionRollback(r.sess)]
    ELSE Answer(r, kb_semantic_search(r.sess, env), env)

\* the system message that carries the fiber context is appended when the
\* request reaches the prompt with a context built from the candidates
FiberContextInjected(r, step) ==
    r.search_results # <<>> /\ step \notin {"retrieval", "extract_related_videos"}

\* the record of a chat request
ChatLast(id, message, env, r, end) ==
    [op |-> "chat", conversation_id |-> id, message |-> message, env |-> env,
     status |-> end.status, step |-> end.step, events |-> end.sess.events, retrieval |-> r]

ChatDone(id, message, env, r) == ChatLast(id, message, env, r, AfterRetrieval(r, env))

\* the record of a request that is not a chat request or finds no conversation
OtherLast(op, id, status) ==
    [op |-> op, conversation_id |-> id, message |-> "",
     env |-> [provider |-> "working", embeddings |-> "some", profile |-> "none",
              faults |-> {}],
     status |-> status, step |-> "done", events |-> <<>>,
     retrieval |-> NoRetrieval(NewSession)]

\* the stored list after a successful request
Stored(messages, message) ==
    messages \o <<[role |-> "user", content |-> message],
                  [role |-> "ai", content |-> BotResponse]>>

ActiveConversation(id) == id \in DOMAIN conversations /\ conversations[id].is_active

StartConversation ==
    /\ chat_ops < MaxChats
    /\ Len(conversations) < MaxConversations
    /\ conversations' = Append(conversations, [is_active |-> TRUE, messages |-> <<>>])
    /\ chat_last' = OtherLast("start", Len(conversations) + 1, 200)
    /\ chat_ops' = chat_ops + 1
    /\ UNCHANGED notChatVars

ChatWithBot ==
    /\ chat_ops < MaxChats
    /\ \E id \in 1..MaxConversations :
         IF ~ActiveConversation(id)
         THEN /\ chat_last' = OtherLast("chat", id, 404)
              /\ UNCHANGED conversations
         ELSE LET context == ConversationContext(conversations[id].messages)
                  historical_fiber == FirstFiber(Lower(context), 1)
                  sess == Execute(NewSession, "conversation_select", FALSE)
              IN  \E message \in Messages, env \in Envs :
                    /\ chat_last' = ChatDone(id, message, env,
                                       Retrieve(sess, message, context, historical_fiber, env))
                    /\ conversations' =
                         IF chat_last'.status = 200
                         THEN [conversations EXCEPT ![id].messages = Stored(@, message)]
                         ELSE conversations
    /\ chat_ops' = chat_ops + 1
    /\ UNCHANGED notChatVars

EndConversation ==
    /\ chat_ops < MaxChats
    /\ \E id \in 1..MaxConversations :
         IF ActiveConversation(id)
         THEN /\ conversations' = [conversations EXCEPT ![id].is_active = FALSE]
              /\ chat_last' = OtherLast("end", id, 200)
         ELSE /\ chat_last' = OtherLast("end", id, 404)
              /\ UNCHANGED conversations
    /\ chat_ops' = chat_ops + 1
    /\ UNCHANGED notChatVars

ContinueConversation ==
    /\ chat_ops < MaxChats
    /\ \E id \in 1..MaxConversations :
         IF id \in DOMAIN conversations /\ ~conversations[id].is_active
         THEN /\ conversations' = [conversations EXCEPT ![id].is_active = TRUE]
              /\ chat_last' = OtherLast("continue", id, 200)
         ELSE /\ chat_last' = OtherLast("continue", id, 404)
              /\ UNCHANGED conversations
    /\ chat_ops' = chat_ops + 1
    /\ UNCHANGED notChatVars

InitChat ==
    /\ conversations = <<>>
    /\ chat_ops = 0
    /\ chat_last = OtherLast("none", 0, 200)

(***************************************************************************)
(* The quizzes (routes.py: start_quiz, submit_quiz).                       *)
(***************************************************************************)
MaxAttempts == 2
MaxQuizOps == 3
MaxAnswers == 3

Users == {1, 2}

\* the rows of the table questions
QuestionRows ==
    << [id |-> 1, fiber_id |-> 1, study_group_code |-> "A", correct_answer |-> "Seed"],
       [id |-> 2, fiber_id |-> 1, study_group_code |-> "A", correct_answer |-> "Cellulose"],
       [id |-> 3, fiber_id |-> 6, study_group_code |-> "A", correct_answer |-> "Ester"] >>

\* the quizzes a user asks for: with questions, without, of a fiber that is not there
QuizRequests == [fiber_id : {1, 2, 6, 11}, study_group_code : {"A", "B"}]

\* the answers a user sends: right, wrong and empty ones, to questions of the
\* quiz, of another quiz and of no quiz
AnswerChoices ==
    { [question_id |-> 1, selected_answer |-> Some("Seed")],
      [question_id |-> 1, selected_answer |-> Some("Bast")],
      [question_id |-> 2, selected_answer |-> None],
      [question_id |-> 3, selected_answer |-> Some("Ester")],
      [question_id |-> 9, selected_answer |-> Some("Seed")] }

RECURSIVE AnswerLists(_)
AnswerLists(n) ==
    IF n = 0 THEN {<<>>}
    ELSE AnswerLists(n - 1)
         \cup {Append(l, c) : l \in {x \in AnswerLists(n - 1) : Len(x) = n - 1},
                              c \in AnswerChoices}

\* the questions of a fiber and a study group
QuestionsOf(fiber_id, study_group_code) ==
    {i \in 1..Len(QuestionRows) : /\ QuestionRows[i].fiber_id = fiber_id
                                  /\ QuestionRows[i].study_group_code = study_group_code}

\* the QuizAttempt row that start_quiz adds
NewAttempt(user, quiz, total) ==
    [user_id |-> user, fiber_id |-> quiz.fiber_id, study_group_code |-> quiz.study_group_code,
     total_questions |-> total, correct_answers |-> 0, score |-> None, is_completed |-> FALSE]

QuizLast(op, user, attempt_id, status) ==
    [op |-> op, user |-> user, attempt_id |-> attempt_id, status |-> status]

StartQuiz ==
    /\ quiz_ops < MaxQuizOps
    /\ \E user \in Users, quiz \in QuizRequests :
         IF quiz.fiber_id \notin FiberIds
               \/ QuestionsOf(quiz.fiber_id, quiz.study_group_code) = {}
         THEN /\ quiz_last' = QuizLast("start", user, 0, 404)
              /\ UNCHANGED quiz_attempts
         ELSE /\ Len(quiz_attempts) < MaxAttempts
              /\ quiz_attempts' =
                   Append(quiz_attempts,
                          NewAttempt(user, quiz,
                             Cardinality(QuestionsOf(quiz.fiber_id, quiz.study_group_code))))
              /\ quiz_last' = QuizLast("start", user, Len(quiz_attempts) + 1, 200)
    /\ quiz_ops' = quiz_ops + 1
    /\ UNCHANGED <<quiz_answers, kbVars, chatVars, call, requests, fiberVars>>

\* the QuizAnswer rows added by the loop over the answers: an answer to a
\* question that is not in the table is skipped
RECURSIVE Graded(_, _)
Graded(attempt_id, answers) ==
    IF answers = <<>> THEN <<>>
    ELSE (IF Head(answers).question_id \notin 1..Len(QuestionRows) THEN <<>>
          ELSE <<[quiz_attempt_id |-> attempt_id, question_id |-> Head(answers).question_id,
                  selected_answer |-> Head(answers).selected_answer,
                  is_correct |-> Head(answers).selected_answer
                                   = Some(QuestionRows[Head(answers).question_id].correct_answer)]>>)
         \o Graded(attempt_id, Tail(answers))

\* correct_count after the loop
CorrectCount(rows) == Cardinality({i \in 1..Len(rows) : rows[i].is_correct})

\* int((correct_count / total_questions) * 100), or 0 for a quiz without questions
QuizScore(correct_count, total_questions) ==
    IF total_questions > 0 THEN (correct_count * 100) \div total_questions ELSE 0

SubmitQuiz ==
    /\ quiz_ops < MaxQuizOps
    /\ \E user \in Users, attempt_id \in 1..MaxAttempts, answers \in AnswerLists(MaxAnswers) :
         IF attempt_id \notin DOMAIN quiz_attempts \/ quiz_attempts[attempt_id].user_id # user
         THEN /\ quiz_last' = QuizLast("submit", user, attempt_id, 404)
              /\ UNCHANGED <<quiz_attempts, quiz_answers>>
         ELSE IF quiz_attempts[attempt_id].is_completed
         THEN /\ quiz_last' = QuizLast("submit", user, attempt_id, 400)
              /\ UNCHANGED <<quiz_attempts, quiz_answers>>
         ELSE /\ quiz_answers' = quiz_answers \o Graded(attempt_id, answers)
              /\ quiz_attempts' =
                   [quiz_attempts EXCEPT
                       ![attempt_id].score =
                           Some(QuizScore(CorrectCount(Graded(attempt_id, answers)),
                                          quiz_attempts[attempt_id].total_questions)),
                       ![attempt_id].correct_answers = CorrectCount(Graded(attempt_id, answers)),
                       ![attempt_id].is_completed = TRUE]
              /\ quiz_last' = QuizLast("submit", user, attempt_id, 200)
    /\ quiz_ops' = quiz_ops + 1
    /\ UNCHANGED <<kbVars, chatVars, call, requests, fiberVars>>

InitQuizzes ==
    /\ quiz_attempts = <<>>
    /\ quiz_answers = <<>>
    /\ quiz_ops = 0
    /\ quiz_last = QuizLast("none", 0, 0, 200)

NextQuiz == StartQuiz \/ SubmitQuiz

\* no call is in progress
NoCall == [fn |-> "none", args |-> <<>>, done |-> TRUE, result |-> <<>>]

NewCall(fn, args) == [fn |-> fn, args |-> args, done |-> FALSE, result |-> <<>>]

Return(result) == [call EXCEPT !.done = TRUE, !.result = result]

\* no chat request is in flight
Idle == [pc |-> "idle", conversation_id |-> 0, message |-> "", messages |-> <<>>]

\* the fibers an admin creates, in creation order: the name, and whether the
\* descriptive fields (class, composition, properties, ...) are filled in
FiberPayloads ==
    << [name |-> "Ramie", detailed |-> TRUE], [name |-> "Hemp", detailed |-> FALSE],
       [name |-> "Alpaca", detailed |-> TRUE], [name |-> "Sisal", detailed |-> FALSE] >>

\* no run of the embedding generation is in flight
NoRun == [pc |-> "idle"]

NoFiberRequest == [op |-> "none", status |-> 0]

InitFibers ==
    /\ fiber_table = [id \in 1..MaxFibers |-> [state |-> "absent", revision |-> 0]]
    /\ fiber_embeddings = {}
    /\ next_embedding_id = 1
    /\ runs = [r \in 1..MaxSessions |-> NoRun]
    /\ fiber_ops = 0
    /\ fiber_last = NoFiberRequest
    /\ cleared = {}

InitStores ==
    InitKB /\ InitChat /\ InitFibers /\ InitQuizzes /\ requests = [r \in 1..MaxSessions |-> Idle]

Init == InitStores /\ call = NoCall

\* the conversations that a user has held before the last of the MaxChats
\* requests: the user turns of each, every one answered
HistoryTurns ==
    { <<>>, <<"is hemp strong">>, <<"hello", "is hemp strong">>,
      <<"is hemp strong", "hello", "hello">>,
      <<"is hemp strong", "hello", "hello", "hello">>,
      <<"hello", "is hemp strong", "hello", "hello">>,
      <<"hello", "hello", "hello", "hello">> }

RECURSIVE StoredTurns(_)
StoredTurns(turns) ==
    IF turns = <<>> THEN <<>>
    ELSE Stored(StoredTurns(SubSeq(turns, 1, Len(turns) - 1)), turns[Len(turns)])

InitChatHistory ==
    /\ InitKB /\ InitFibers /\ InitQuizzes
    /\ requests = [r \in 1..MaxSessions |-> Idle]
    /\ call = NoCall
    /\ chat_ops = MaxChats - 1
    /\ chat_last = OtherLast("none", 0, 200)
    /\ conversations \in {<<[is_active |-> TRUE, messages |-> StoredTurns(t)]>> :
                             t \in HistoryTurns}

NextChatHistory == ChatWithBot

SpecChatHistory == InitChatHistory /\ [][NextChatHistory]_vars

NextChat == StartConversation \/ ChatWithBot \/ EndConversation \/ ContinueConversation

SpecKB == Init /\ [][NextKB]_vars

SpecChat == Init /\ [][NextChat]_vars

SpecQuiz == Init /\ [][NextQuiz]_vars

(***************************************************************************)
(* Chat requests that overlap: each one runs in its own session, reads     *)
(* the conversation row when it begins and writes the whole message list   *)
(* back when it commits.                                                   *)
(***************************************************************************)
\* chat_with_bot up to the read of conversation.messages
ReadConversation ==
    /\ chat_ops < MaxChats
    /\ \E r \in 1..MaxSessions, id \in 1..MaxConversations, message \in Messages :
         /\ requests[r].pc = "idle"
         /\ ActiveConversation(id)
         /\ requests' = [requests EXCEPT ![r] =
                           [pc |-> "read", conversation_id |-> id, message |-> message,
                            messages |-> conversations[id].messages]]
    /\ chat_ops' = chat_ops + 1
    /\ UNCHANGED <<conversations, chat_last, kbVars, call, fiberVars, quizVars>>

\* chat_with_bot from intent detection to the commit or the error response
FinishChat ==
    /\ \E r \in 1..MaxSessions :
         /\ requests[r].pc = "read"
         /\ LET context == ConversationContext(requests[r].messages)
                historical_fiber == FirstFiber(Lower(context), 1)
                sess == Execute(NewSession, "conversation_select", FALSE)
            IN  \E env \in Envs :
                  /\ chat_last' = ChatDone(requests[r].conversation_id, requests[r].message,
                                     env,
                                     Retrieve(sess, requests[r].message, context,
                                              historical_fiber, env))
                  /\ conversations' =
                       IF chat_last'.status = 200
                       THEN [conversations EXCEPT ![requests[r].conversation_id].messages =
                                Stored(requests[r].messages, requests[r].message)]
                       ELSE conversations
         /\ requests' = [requests EXCEPT ![r] = Idle]
    /\ UNCHANGED <<chat_ops, kbVars, call, fiberVars, quizVars>>

NextChatRace == StartConversation \/ ReadConversation \/ FinishChat

SpecChatRace == Init /\ [][NextChatRace]_vars

\* the lifecycle requests next to chat requests in flight
NextLifecycle ==
    StartConversation \/ ReadConversation \/ FinishChat \/ EndConversation \/ ContinueConversation

SpecLifecycle == Init /\ [][NextLifecycle]_vars

(***************************************************************************)
(* The fiber-name vocabulary: fibers are created through the admin route,  *)
(* the cache-clear route is called, intent detection is asked about them.  *)
(***************************************************************************)
Present(id) == fiber_table[id].state \in {"active", "inactive"}

\* create_fiber: the next id of the sequence gets the payload, active by default
CreateFiber ==
    /\ fiber_ops < MaxFiberOps
    /\ \E id \in 1..MaxFibers :
         /\ fiber_table[id].state = "absent"
         /\ \A other \in 1..(id - 1) : fiber_table[other].state # "absent"
         /\ fiber_table' = [fiber_table EXCEPT ![id].state = "active"]
         /\ fiber_last' = [op |-> "create_fiber", status |-> 201, fiber_id |-> id]
    /\ fiber_ops' = fiber_ops + 1
    /\ UNCHANGED <<fiber_embeddings, next_embedding_id, runs, cleared, kbVars, chatVars, call, requests, quizVars>>

\* FiberSearchService has no attribute clear_fiber_cache: the call raises
\* AttributeError inside the try of the route, which answers 500
FiberServiceMethods ==
    {"normalize_query", "keyword_search", "semantic_search", "get_fiber_by_name",
     "get_fibers_by_class", "get_fibers_by_subtype", "get_fibers_by_synthetic_type",
     "get_fibers_by_polymerization_type", "search_fibers_by_category",
     "get_fibers_by_application", "build_fiber_context", "detect_query_intent",
     "extract_structure_images"}

\* the route: 200 when the service call returns, 500 when it raises
clear_fiber_cache == IF "clear_fiber_cache" \in FiberServiceMethods THEN 200 ELSE 500

ClearFiberCache ==
    /\ fiber_ops < MaxFiberOps
    /\ fiber_last' = [op |-> "clear_fiber_cache", status |-> clear_fiber_cache]
    /\ cleared' = cleared \cup {id \in 1..MaxFibers : Present(id)}
    /\ fiber_ops' = fiber_ops + 1
    /\ UNCHANGED <<fiber_table, fiber_embeddings, next_embedding_id, runs, kbVars, chatVars, call, requests, quizVars>>

\* the questions a user asks about one fiber by its name
QuestionForms == {"Tell me about ", "What is ", "Properties of ", "Uses of "}

FiberQuestion(form, id) == form \o FiberPayloads[id].name

\* detect_query_intent on a question: the vocabulary is the list in the code
DetectQueryIntent ==
    /\ fiber_ops < MaxFiberOps
    /\ \E id \in 1..MaxFibers, form \in QuestionForms :
         fiber_last' = [op |-> "detect_query_intent", status |-> 200, fiber_id |-> id,
                        query |-> FiberQuestion(form, id),
                        intent |-> detect_query_intent(FiberQuestion(form, id))]
    /\ fiber_ops' = fiber_ops + 1
    /\ UNCHANGED <<fiber_table, fiber_embeddings, next_embedding_id, runs, cleared, kbVars, chatVars, call, requests, quizVars>>

NextVocabulary == CreateFiber \/ ClearFiberCache \/ DetectQueryIntent

SpecVocabulary == Init /\ [][NextVocabulary]_vars

(***************************************************************************)
(* Fiber embeddings: the generation runs of the route and of the script,   *)
(* which commit fiber by fiber, and the deletion route.                    *)
(***************************************************************************)
RunKinds == {"route", "script"}

\* the content types a run builds for a fiber
EmbeddingTypes(kind, detailed) ==
    IF kind = "route"
    THEN IF detailed THEN {"name", "properties"} ELSE {"name"}
    ELSE IF detailed THEN {"basic_info", "properties"} ELSE {}

\* the committed rows of one fiber
EmbeddingsOf(fiber_id) == {e \in fiber_embeddings : e.fiber_id = fiber_id}

\* idx_fiber_embedding_unique rejects an INSERT whose key a committed row holds
IndexConflict_Unenforced(rows, fiber_id, types) == FALSE

IndexConflict(rows, fiber_id, types) ==
    \E e \in rows : e.fiber_id = fiber_id /\ e.content_type \in types

\* update_fiber: the descriptive fields get new values
UpdateFiber ==
    /\ fiber_ops < MaxFiberOps
    /\ \E id \in 1..MaxFibers :
         /\ Present(id)
         /\ fiber_table[id].revision = 0
         /\ fiber_table' = [fiber_table EXCEPT ![id].revision = 1]
         /\ fiber_last' = [op |-> "update_fiber", status |-> 200, fiber_id |-> id]
    /\ fiber_ops' = fiber_ops + 1
    /\ UNCHANGED <<fiber_embeddings, next_embedding_id, runs, cleared, kbVars, chatVars, call, requests, quizVars>>

\* delete_fiber_embeddings: every row of the fiber goes, 404 for an unknown fiber
DeleteFiberEmbeddings ==
    /\ fiber_ops < MaxFiberOps
    /\ \E id \in 1..MaxFibers :
         IF Present(id)
         THEN /\ fiber_embeddings' = fiber_embeddings \ EmbeddingsOf(id)
              /\ fiber_last' = [op |-> "delete_fiber_embeddings", status |-> 200, fiber_id |-> id,
                                embeddings_deleted |-> Cardinality(EmbeddingsOf(id))]
         ELSE /\ fiber_embeddings' = fiber_embeddings
              /\ fiber_last' = [op |-> "delete_fiber_embeddings", status |-> 404, fiber_id |-> id]
    /\ fiber_ops' = fiber_ops + 1
    /\ UNCHANGED <<fiber_table, next_embedding_id, runs, cleared, kbVars, chatVars, call, requests, quizVars>>

\* the active fibers in id order, as the run's SELECT loads them
RECURSIVE ActiveFibers(_)
ActiveFibers(id) ==
    IF id > MaxFibers THEN <<>>
    ELSE (IF fiber_table[id].state = "active"
          THEN <<[id |-> id, revision |-> fiber_table[id].revision]>> ELSE <<>>)
         \o ActiveFibers(id + 1)

\* what the response of the request served last says, for the next run
Summary(last) ==
    [op |-> last.op,
     kind |-> IF last.op = "generate_fiber_embeddings" THEN last.kind ELSE "",
     force |-> last.op = "generate_fiber_embeddings" /\ last.force,
     alone |-> last.op = "generate_fiber_embeddings" /\ last.alone,
     failed |-> IF last.op = "generate_fiber_embeddings" THEN last.failed ELSE 0]

\* the end of a run: the statistics the route returns and the script prints
RunResponse(run, created, failed, crashed) ==
    [op |-> "generate_fiber_embeddings", kind |-> run.kind, force |-> run.force,
     status |-> IF crashed THEN 500 ELSE 200,
     created |-> created, failed |-> failed,
     alone |-> run.alone /\ fiber_ops = run.serial,
     after |-> run.after]

\* the run goes on with the next fiber
Continue(run, created, failed) ==
    [run EXCEPT !.pc = "next", !.todo = Tail(run.todo), !.seen = {},
                !.created = created, !.failed = failed]

\* the start of a run: the script with --regenerate deletes every row and
\* commits; then the active fibers are selected
StartRun ==
    /\ fiber_ops < MaxFiberOps
    /\ \E r \in 1..MaxSessions, kind \in RunKinds, force \in BOOLEAN :
         /\ runs[r].pc = "idle"
         /\ \A other \in 1..(r - 1) : runs[other].pc # "idle"
         /\ fiber_embeddings' = IF kind = "script" /\ force THEN {} ELSE fiber_embeddings
         /\ runs' = [runs EXCEPT ![r] =
                       [pc |-> "next", kind |-> kind, force |-> force,
                        todo |-> ActiveFibers(1), seen |-> {}, created |-> 0, failed |-> 0,
                        serial |-> fiber_ops + 1,
                        alone |-> \A other \in 1..MaxSessions : runs[other].pc = "idle",
                        after |-> Summary(fiber_last)]]
    /\ fiber_ops' = fiber_ops + 1
    /\ UNCHANGED <<fiber_table, next_embedding_id, fiber_last, cleared, kbVars, chatVars, call, requests, quizVars>>

\* the run reads the existing rows of the next fiber
ReadEmbeddings ==
    /\ \E r \in 1..MaxSessions :
         /\ runs[r].pc = "next"
         /\ runs[r].todo # <<>>
         /\ runs' = [runs EXCEPT ![r].pc = "write",
                                 ![r].seen = EmbeddingsOf(Head(runs[r].todo).id)]
    /\ UNCHANGED <<fiber_table, fiber_embeddings, next_embedding_id, fiber_ops, fiber_last, cleared, kbVars, chatVars, call, requests, quizVars>>

\* the content types the run adds for the fiber it has read
TypesToCreate(run, detailed) ==
    {t \in EmbeddingTypes(run.kind, detailed) :
        run.force \/ ~\E e \in run.seen : e.content_type = t}

\* the rows the forced run of the route marks deleted
RowsToDelete(run, detailed) ==
    IF run.kind = "route" /\ run.force
    THEN {e \in run.seen : e.content_type \in EmbeddingTypes(run.kind, detailed)}
    ELSE {}

RECURSIVE NewEmbeddings(_, _, _)
NewEmbeddings(fiber, types, id) ==
    IF types = {} THEN {}
    ELSE LET t == CHOOSE x \in types : TRUE
         IN  {[id |-> id, fiber_id |-> fiber.id, content_type |-> t, revision |-> fiber.revision]}
             \cup NewEmbeddings(fiber, types \ {t}, id + 1)

\* the flush at the commit of one fiber: the INSERTs go first, then the DELETEs
Flush(rows, fiber, types, deleted, id) ==
    IF IndexConflict(rows, fiber.id, types)
    THEN [ok |-> FALSE, rows |-> rows]
    ELSE [ok |-> TRUE, rows |-> (rows \cup NewEmbeddings(fiber, types, id)) \ deleted]

\* one fiber of a run: the provider embeds the texts, the rows are added and
\* committed. The route rolls the fiber back on any error and goes on; the
\* script skips the texts the provider failed on, and dies on a store error.
FiberOutcome(run, provider_ok) ==
    LET fiber == Head(run.todo)
        detailed == FiberPayloads[fiber.id].detailed
        types == TypesToCreate(run, detailed)
        wanted == IF run.kind = "script" /\ ~provider_ok THEN {} ELSE types
        raised == run.kind = "route" /\ ~provider_ok /\ types # {}
        flush == Flush(fiber_embeddings, fiber, wanted, RowsToDelete(run, detailed), next_embedding_id)
    IN  [rows |-> IF raised THEN fiber_embeddings ELSE flush.rows,
         created |-> IF raised \/ ~flush.ok THEN 0 ELSE Cardinality(wanted),
         failed |-> IF raised \/ ~flush.ok \/ wanted # types THEN 1 ELSE 0,
         crashed |-> run.kind = "script" /\ ~flush.ok]

WriteEmbeddings ==
    /\ \E r \in 1..MaxSessions, provider_ok \in BOOLEAN :
         /\ runs[r].pc = "write"
         /\ LET out == FiberOutcome(runs[r], provider_ok)
                created == runs[r].created + out.created
                failed == runs[r].failed + out.failed
            IN  /\ fiber_embeddings' = out.rows
                /\ next_embedding_id' = next_embedding_id + out.created
                /\ IF out.crashed \/ Len(runs[r].todo) = 1
                   THEN /\ fiber_last' = RunResponse(runs[r], created, failed, out.crashed)
                        /\ runs' = [runs EXCEPT ![r] = NoRun]
                   ELSE /\ fiber_last' = fiber_last
                        /\ runs' = [runs EXCEPT ![r] = Continue(runs[r], created, failed)]
    /\ UNCHANGED <<fiber_table, fiber_ops, cleared, kbVars, chatVars, call, requests, quizVars>>

\* a run over no fiber ends at once
EndEmptyRun ==
    /\ \E r \in 1..MaxSessions :
         /\ runs[r].pc = "next"
         /\ runs[r].todo = <<>>
         /\ fiber_last' = RunResponse(runs[r], 0, 0, FALSE)
         /\ runs' = [runs EXCEPT ![r] = NoRun]
    /\ UNCHANGED <<fiber_table, fiber_embeddings, next_embedding_id, fiber_ops, cleared, kbVars, chatVars, call, requests, quizVars>>

NextEmbeddings ==
    \/ CreateFiber \/ UpdateFiber \/ DeleteFiberEmbeddings
    \/ StartRun \/ ReadEmbeddings \/ WriteEmbeddings \/ EndEmptyRun

SpecEmbeddings == Init /\ [][NextEmbeddings]_vars

(***************************************************************************)
(* normalize_query and keyword_search as functions of the query.           *)
(***************************************************************************)
Queries ==
    {"", " ", "_", "-", " - _ ", "cotton", "Cotton", "COTTON  Fiber", "cottn", "coton",
     "coooton", "cottton", "aaa", "aaaa bbb", "x", "ab", "a-b", "a_b c", "wool ", "silk",
     "melt spinning", "melt-spinning", "melt_spinning", "meltspinning", "Melt  Spinning",
     "wet spining", "spiniinng", "spinnnning", "dyeinng", "kniting", "weaving",
     "polyester", "polypropylene", "nylon 6", "lycra", "cotton blends", "natural fibers",
     "wet spinnnning", "dry-jet wet spinnnning", "electro spiniinng of nylon"}

NormalizeQuery ==
    /\ call.fn = "normalize_query" /\ ~call.done
    /\ call' = Return(normalize_query(call.args.query))
    /\ UNCHANGED notCallVars

\* normalize_query applied again, to one of the variants it returned
NormalizeVariant ==
    /\ call.fn = "normalize_query" /\ call.done
    /\ \E k \in 1..Len(call.result) :
         call' = [fn |-> "normalize_variant",
                  args |-> [query |-> call.args.query, variants |-> call.result,
                            variant |-> call.result[k]],
                  done |-> TRUE,
                  result |-> normalize_query(call.result[k])]
    /\ UNCHANGED notCallVars

\* keyword_search(query) with the default limit on a healthy store
KeywordSearch ==
    /\ call.fn = "keyword_search" /\ ~call.done
    /\ call' = Return(keyword_search(NewSession, KeywordSelect(call.args.query, 5), {}).result)
    /\ UNCHANGED notCallVars

InitNormalize ==
    /\ InitStores
    /\ call \in {NewCall(fn, [query |-> q]) : fn \in {"normalize_query", "keyword_search"},
                                              q \in Queries}

NextNormalize == NormalizeQuery \/ NormalizeVariant \/ KeywordSearch

SpecNormalize == InitNormalize /\ [][NextNormalize]_vars

(***************************************************************************)
(* chunk_document as a function of the document text.                      *)
(***************************************************************************)
MaxParagraphs == 2

\* sentences that differ from one another: "Lot n was retted, ..." for n = k..last
RECURSIVE Numbered(_, _)
Numbered(k, last) ==
    IF k > last THEN ""
    ELSE "Lot " \o ToString(k) \o " was retted, scutched, hackled, spun and woven at the mill. "
         \o Numbered(k + 1, last)

\* paragraphs: one short sentence, short sentences up to 479 and up to 951
\* characters, one sentence of 910 characters, 14 different sentences of 914
\* characters in all, a short sentence inside white space, and three short
\* sentences
Paragraphs ==
    <<"Cotton is a natural seed fiber.",
      Strip(Repeat("Cotton is soft. ", 30)),
      Strip(Repeat("Wool is warm! ", 68)),
      Strip(Repeat("polyethylene ", 70)) \o ".",
      Strip(Numbered(1, 14)),
      "  Linen creases easily.\t",
      "Is silk strong? Yes.  It is a protein fiber!">>

\* the documents of up to MaxParagraphs paragraphs, as lists of paragraph numbers
RECURSIVE Layouts(_)
Layouts(n) ==
    IF n = 0 THEN {<<>>}
    ELSE Layouts(n - 1)
         \cup {Append(l, k) : l \in {x \in Layouts(n - 1) : Len(x) = n - 1},
                              k \in 1..Len(Paragraphs)}

\* the text of a document: its paragraphs separated by a blank line
RECURSIVE Text(_)
Text(layout) ==
    IF layout = <<>> THEN ""
    ELSE IF Len(layout) = 1 THEN Paragraphs[layout[1]]
    ELSE Paragraphs[Head(layout)] \o "\n\n" \o Text(Tail(layout))

ChunkDocument ==
    /\ call.fn = "chunk_document" /\ ~call.done
    /\ call' = Return(chunk_document(Text(call.args.layout)))
    /\ UNCHANGED notCallVars

InitChunk ==
    /\ InitStores
    /\ call \in {NewCall("chunk_document", [layout |-> l]) : l \in Layouts(MaxParagraphs)}

NextChunk == ChunkDocument

SpecChunk == InitChunk /\ [][NextChunk]_vars

(***************************************************************************)
(* search_fibers_by_category as a function of the query.                   *)
(***************************************************************************)
CategoryQueries ==
    {"", "hello", "What is cotton", "list all natural fibers", "Natural Fibers",
     "SYNTHETIC fibres", "synthetic", "which mineral fibers", "animal fibers",
     "regenerated fibers", "Regenerated bast fibers", "regenerated and mineral",
     "bast fibers", "leaf fibers", "seed fibers", "Seed hair", "hair", "secretion fibers",
     "protein fibers", "polyester", "cellulose fibers", "cellulosic fibers",
     "cellulose_bast", "regenerated_protein", "thermoplastic fibers", "thermoset",
     "melting point of nylon", "non melting fibers", "polymerization of nylon",
     "polycondensation", "step-growth", "radical", "ring-opening",
     "natural or synthetic", "synthetic bast", "mineral bast", "linen", "unnatural",
     "best fiber for ropes", "supernatural seeds"}

CategoryLimits == {1, 3, 20}

SearchFibersByCategory ==
    /\ call.fn = "search_fibers_by_category" /\ ~call.done
    /\ call' = Return(search_fibers_by_category(call.args.query, call.args.limit))
    /\ UNCHANGED notCallVars

InitCategory ==
    /\ InitStores
    /\ call \in {NewCall("search_fibers_by_category", [query |-> q, limit |-> l]) :
                    q \in CategoryQueries, l \in CategoryLimits}

NextCategory == SearchFibersByCategory

SpecCategory == InitCategory /\ [][NextCategory]_vars

(***************************************************************************)
(* detect_query_intent as a function of the query.                         *)
(***************************************************************************)
IntentQueries ==
    Queries \cup CategoryQueries \cup Messages \cup
    {"Show me the structure of COTTON", "Compare nylon vs polyester properties",
     "What is the difference between wool and silk", "How is rayon made",
     "Properties of natural fibers", "Explain the dyeing process",
     "Where is kevlar used", "image", "Tell me about Ramie", "thanks a lot",
     "Diagram of the spinning process", "Define Viscose", "best for ropes",
     "VS", "Good morning", "characteristic", "useful", "PICTURE of glass fibers",
     "identify this", "carbon"}

DetectIntent ==
    /\ call.fn = "detect_query_intent" /\ ~call.done
    /\ call' = Return(detect_query_intent(call.args.query))
    /\ UNCHANGED notCallVars

InitIntent ==
    /\ InitStores
    /\ call \in {NewCall("detect_query_intent", [query |-> q]) : q \in IntentQueries}

NextIntent == DetectIntent

SpecIntent == InitIntent /\ [][NextIntent]_vars

(***************************************************************************)
(* FiberSearchService.build_fiber_context                                  *)
(***************************************************************************)
MaxCandidates == 2

\* the column fiber_id of a row: the public code of the fiber
FiberCode(id) == "F" \o ToString(id)

\* f"{similarity:.2f}" for a similarity below 1.0, given in hundredths
Format2f(similarity) ==
    "0." \o (IF similarity < 10 THEN "0" ELSE "") \o ToString(similarity)

\* the line written for every candidate, whatever its similarity
RelevanceLine_Always(similarity) == <<"   - Relevance Score: " \o Format2f(similarity)>>

\* the relevance line of a candidate from the semantic search
RelevanceLine(similarity) ==
    IF similarity < 100 THEN <<"   - Relevance Score: " \o Format2f(similarity)>> ELSE <<>>

\* the line of an optional text column
TextLine(label, value) ==
    IF IsNone(value) THEN <<>> ELSE <<"   - " \o label \o ": " \o Val(value)>>

\* the line of an optional list column, cut to its first n elements
ListLine(label, value, n) ==
    IF IsNone(value) \/ Val(value) = <<>> THEN <<>>
    ELSE <<"   - " \o label \o ": " \o Join(Take(Val(value), n), ", ")>>

\* fiber_info of one candidate, joined
FiberInfo(idx, fiber, similarity) ==
    Join(<<"\n" \o ToString(idx) \o ". **" \o fiber.name \o "** (ID: " \o FiberCode(fiber.id) \o ")">>
            \o TextLine("Class", fiber.fiber_class)
            \o TextLine("Subtype", fiber.subtype)
            \o ListLine("Trade Names", fiber.trade_names, 10)
            \o ListLine("Applications", fiber.applications, 5)
            \o RelevanceLine(similarity),
         "\n")

\* the loop over the items: an item without a fiber is skipped, an item
\* without a similarity counts as 1.0
RECURSIVE ContextParts(_, _)
ContextParts(items, idx) ==
    IF idx > Len(items) THEN <<>>
    ELSE (IF "fiber" \notin DOMAIN items[idx] THEN <<>>
          ELSE <<FiberInfo(idx, FiberRows[items[idx].fiber],
                           IF "similarity" \in DOMAIN items[idx]
                           THEN items[idx].similarity ELSE 100)>>)
         \o ContextParts(items, idx + 1)

build_fiber_context(items) ==
    IF items = <<>> THEN ""
    ELSE Join(<<"Here is relevant information from the fiber database:\n">>
                 \o ContextParts(items, 1)
                 \o <<"\nUse this information to provide accurate, detailed answers about these fibers.">>,
              "\n")

\* the candidates: entries of a result list and plain fiber rows
Candidates ==
    {[fiber |-> id, similarity |-> sim, content_type |-> "semantic"] :
        id \in {1, 5, 6, 9}, sim \in {5, 45, 99, 100}}
    \cup {[fiber |-> id] : id \in {2, 10}}

RECURSIVE CandidateLists(_)
CandidateLists(n) ==
    IF n = 0 THEN {<<>>}
    ELSE CandidateLists(n - 1)
         \cup {Append(l, c) : l \in {x \in CandidateLists(n - 1) : Len(x) = n - 1},
                              c \in Candidates}

BuildFiberContext ==
    /\ call.fn = "build_fiber_context" /\ ~call.done
    /\ call' = Return(build_fiber_context(call.args.fibers))
    /\ UNCHANGED notCallVars

InitContext ==
    /\ InitStores
    /\ call \in {NewCall("build_fiber_context", [fibers |-> l]) :
                    l \in CandidateLists(MaxCandidates)}

NextContext == BuildFiberContext

SpecContext == InitContext /\ [][NextContext]_vars

(***************************************************************************)
(* update_document's re-indexing as a transaction in flight, next to the   *)
(* document semantic search of another session.  The store is PostgreSQL   *)
(* (the search uses the pgvector operator <=>): a statement reads the rows *)
(* committed when it starts, at every isolation level.                     *)
(***************************************************************************)
\* the transaction of an update_document call that re-indexes: the field
\* assignments and the DELETE are executed, nothing is committed
Reindexing(id, a, provider, deleted) ==
    [pc |-> "deleted", doc |-> id, args |-> a, provider |-> provider, deleted |-> deleted]

\* update_document up to the DELETE of the old embedding rows
BeginReindex ==
    /\ kb_ops < MaxOps
    /\ runs[1] = NoRun
    /\ \E id \in DOMAIN documents, a \in UpdateArgs, provider \in Providers :
         /\ "content" \in ChangedKeys(documents[id], a)
         /\ provider # "unconfigured"
         /\ runs' = [runs EXCEPT ![1] =
                        Reindexing(id, a, provider,
                                   {r \in kb_embeddings : r.document_id = id})]
    /\ kb_ops' = kb_ops + 1
    /\ UNCHANGED <<documents, kb_embeddings, audit_log, next_doc_id, kb_last, chatVars, call,
                   requests, fiber_table, fiber_embeddings, next_embedding_id, fiber_ops,
                   fiber_last, cleared, quizVars>>

\* update_document from the embedding call to the commit, or to the rollback
FinishReindex ==
    /\ runs[1] # NoRun
    /\ LET r == update_document(Committed, runs[1].doc, runs[1].args, runs[1].provider)
       IN  /\ documents' = r.state.documents
           /\ kb_embeddings' = r.state.kb_embeddings
           /\ audit_log' = r.state.audit_log
           /\ kb_last' = [op |-> "update", doc |-> runs[1].doc, ok |-> r.ok,
                          provider |-> runs[1].provider, args |-> runs[1].args,
                          calls |-> r.calls]
    /\ runs' = [runs EXCEPT ![1] = NoRun]
    /\ UNCHANGED <<next_doc_id, kb_ops, chatVars, call, requests, fiber_table,
                   fiber_embeddings, next_embedding_id, fiber_ops, fiber_last, cleared, quizVars>>

\* a statement that would read the uncommitted DELETE of another transaction
VisibleRows_Uncommitted(rows, deleted) == rows \ deleted

\* the embedding rows a statement of another session reads: the committed ones
VisibleRows(rows, deleted) == rows

\* the rows of the search statement: embeddings joined to their documents,
\* filtered by is_published; the similarity of a chunk is the provider's choice
\* and every chunk may pass the threshold
SearchRows(rows, published_only) ==
    {r \in rows : /\ r.document_id \in DOMAIN documents
                  /\ (published_only => documents[r.document_id].is_published)}

\* KnowledgeBaseService.semantic_search by another session, whatever the
\* update in flight has done
SearchDocuments ==
    /\ \E published_only \in BOOLEAN :
         call' = [fn |-> "kb_semantic_search",
                  args |-> [published_only |-> published_only,
                            reindexing |-> IF runs[1] = NoRun THEN None
                                           ELSE Some([doc |-> runs[1].doc,
                                                      deleted |-> runs[1].deleted])],
                  done |-> TRUE,
                  result |-> SearchRows(VisibleRows(kb_embeddings,
                                           IF runs[1] = NoRun THEN {} ELSE runs[1].deleted),
                                        published_only)]
    /\ UNCHANGED <<kbVars, chatVars, requests, fiberVars, quizVars>>

NextReindex == CreateDocument \/ BeginReindex \/ FinishReindex \/ SearchDocuments

SpecReindex == Init /\ [][NextReindex]_vars

(***************************************************************************)
(* The similarity queries as functions of the store and of their           *)
(* parameters (FiberSearchService.semantic_search and                      *)
(* KnowledgeBaseService.semantic_search).                                  *)
(***************************************************************************)
\* a knowledge base with five indexed documents of two chunks each
Doc(category, fiber_ids, is_published) ==
    [category |-> category, fiber_ids |-> fiber_ids, is_published |-> is_published]

DocRows ==
    << Doc(Some("care"), None, TRUE),
       Doc(Some("care"), Some(<<6>>), TRUE),
       Doc(None, Some(<<7, 8>>), TRUE),
       Doc(Some("fibers"), Some(<<1>>), TRUE),
       Doc(Some("fibers"), Some(<<1, 2>>), FALSE) >>

DocIds == 1..Len(DocRows)

ChunkIndexes == {0, 1}

\* 100 * (1 - cosine distance) between the query embedding and chunk
\* chunk_index of a document
DocSimilarity(profile, id, chunk_index) ==
    IF profile = "dense" THEN 90 - 10 * id + 3 * chunk_index
    ELSE IF profile = "sparse"
    THEN (IF id = 4 THEN 75 - 20 * chunk_index ELSE IF id = 2 THEN 55 ELSE 10)
    ELSE 10

\* the rows of ranked_chunks: similarity >= threshold and the where clauses
RankedChunks(profile, threshold, category, published_only) ==
    {r \in [document_id : DocIds, chunk_index : ChunkIndexes] :
        /\ DocSimilarity(profile, r.document_id, r.chunk_index) >= threshold
        /\ published_only => DocRows[r.document_id].is_published
        /\ ~IsNone(category) => DocRows[r.document_id].category = category}

\* chunk r comes before chunk o when their similarities are equal
ChunkBeforeOnTie(r, o, ties) ==
    IF r.document_id # o.document_id
    THEN (IF ties = "first" THEN r.document_id < o.document_id
          ELSE r.document_id > o.document_id)
    ELSE (IF ties = "first" THEN r.chunk_index < o.chunk_index
          ELSE r.chunk_index > o.chunk_index)

\* chunk r comes before every other chunk of the set
ChunkLeads(r, rows, profile, ties) ==
    \A o \in rows \ {r} :
        \/ DocSimilarity(profile, o.document_id, o.chunk_index)
              < DocSimilarity(profile, r.document_id, r.chunk_index)
        \/ /\ DocSimilarity(profile, o.document_id, o.chunk_index)
                = DocSimilarity(profile, r.document_id, r.chunk_index)
           /\ ChunkBeforeOnTie(r, o, ties)

\* rank = 1: the chunk of its document with the least distance
BestChunks(rows, profile, ties) ==
    {r \in rows : ChunkLeads(r, {o \in rows : o.document_id = r.document_id}, profile, ties)}

\* ORDER BY similarity DESC
RECURSIVE OrderChunks(_, _, _)
OrderChunks(rows, profile, ties) ==
    IF rows = {} THEN <<>>
    ELSE <<CHOOSE r \in rows : ChunkLeads(r, rows, profile, ties)>>
         \o OrderChunks(rows \ {CHOOSE r \in rows : ChunkLeads(r, rows, profile, ties)},
                        profile, ties)

\* the similarity query of KnowledgeBaseService.semantic_search
ChunkQuery(profile, threshold, limit, category, published_only, ties) ==
    Take(OrderChunks(BestChunks(RankedChunks(profile, threshold, category, published_only),
                                profile, ties),
                     profile, ties),
         limit)

\* any(fid in fiber_ids for fid in doc_fiber_ids), with row.fiber_ids or []
RelatesTo(id, fiber_ids) ==
    /\ ~IsNone(DocRows[id].fiber_ids)
    /\ \E k \in 1..Len(Val(DocRows[id].fiber_ids)) : InSeq(Val(DocRows[id].fiber_ids)[k], fiber_ids)

\* the loop over the rows of the query: the fiber_ids filter and the result dicts
RECURSIVE DocumentResults(_, _, _)
DocumentResults(rows, profile, fiber_ids) ==
    IF rows = <<>> THEN <<>>
    ELSE (IF /\ ~IsNone(fiber_ids) /\ Val(fiber_ids) # <<>>
             /\ ~RelatesTo(Head(rows).document_id, Val(fiber_ids))
          THEN <<>>
          ELSE <<[document_id |-> Head(rows).document_id,
                  similarity |-> DocSimilarity(profile, Head(rows).document_id,
                                               Head(rows).chunk_index),
                  chunk_index |-> Head(rows).chunk_index]>>)
            \o DocumentResults(Tail(rows), profile, fiber_ids)

\* KnowledgeBaseService.semantic_search with a working provider and store
document_semantic_search(a) ==
    DocumentResults(ChunkQuery(a.profile, a.threshold, a.limit, a.category,
                               a.published_only, a.ties),
                    a.profile, a.fiber_ids)

\* the calls of the fiber similarity query
FiberQueryCalls ==
    [profile : Profiles, threshold : {0, 10, 45, 50, 83}, limit : {1, 3, 15}, ties : TieOrders]

\* the calls of the document similarity query (the chat request passes limit 3,
\* threshold 0.5, published_only and the ids of the fibers it retrieved)
DocumentQueryCalls ==
    [profile : Profiles, threshold : {10, 50, 60}, limit : {1, 3, 5},
     category : {None, Some("care")}, published_only : BOOLEAN, ties : TieOrders,
     fiber_ids : {None, Some(<<>>), Some(<<1>>), Some(<<7, 9>>)}]

FiberSimilarityQuery ==
    /\ call.fn = "fiber_query" /\ ~call.done
    /\ call' = Return(SimilarityQuery(call.args.profile, call.args.threshold,
                                      call.args.limit, call.args.ties))
    /\ UNCHANGED notCallVars

DocumentSimilarityQuery ==
    /\ call.fn = "document_query" /\ ~call.done
    /\ call' = Return(ChunkQuery(call.args.profile, call.args.threshold, call.args.limit,
                                 call.args.category, call.args.published_only,
                                 call.args.ties))
    /\ UNCHANGED notCallVars

DocumentSemanticSearch ==
    /\ call.fn = "document_search" /\ ~call.done
    /\ call' = Return(document_semantic_search(call.args))
    /\ UNCHANGED notCallVars

InitQuery ==
    /\ InitStores
    /\ call \in {NewCall("fiber_query", a) : a \in FiberQueryCalls}
            \cup {NewCall("document_query", a) : a \in DocumentQueryCalls}

NextQuery == FiberSimilarityQuery \/ DocumentSimilarityQuery

SpecQuery == InitQuery /\ [][NextQuery]_vars

InitDocSearch ==
    /\ InitStores
    /\ call \in {NewCall("document_search", a) : a \in DocumentQueryCalls}

NextDocSearch == DocumentSemanticSearch

SpecDocSearch == InitDocSearch /\ [][NextDocSearch]_vars

(***************************************************************************)
(* Claims about the Document Indexer (SpecKB).                             *)
(***************************************************************************)
\* the rows a document holds when it is fully indexed for its content
IndexedRows(id, content) == EmbeddingRows(id, ChunksOf[content], Len(ChunksOf[content]))

RowsOf(rows, id) == {r \in rows : r.document_id = id}

AuditOf(log, id, action) ==
    {i \in 1..Len(log) : log[i].document_id = id /\ log[i].action = action}

DocFields == {"title", "content", "category", "subcategory", "fiber_ids", "tags", "is_published"}

\* C3: create_document_with_embeddings is all-or-nothing: after a create call
\* either the document, one embedding row per chunk of chunk_document(content)
\* (chunk_index = position) and the 'created' audit entry are all committed, or
\* none of them is, whatever the state of the embedding provider.
C3_CreateAllOrNothing ==
    kb_last.op = "create" =>
        IF kb_last.doc \in DOMAIN documents
        THEN /\ RowsOf(kb_embeddings, kb_last.doc)
                  = IndexedRows(kb_last.doc, documents[kb_last.doc].content)
             /\ AuditOf(audit_log, kb_last.doc, "created") # {}
        ELSE /\ RowsOf(kb_embeddings, kb_last.doc) = {}
             /\ AuditOf(audit_log, kb_last.doc, "created") = {}

\* C4: after a successful update_document call that changes the content field,
\* the embedding rows of the document are exactly the chunks of
\* chunk_document(new content), indexed 0..n-1, and no older row remains.
C4_UpdateReindexes ==
    [][(/\ kb_last'.op = "update" /\ kb_last'.ok
        /\ kb_last'.doc \in DOMAIN documents
        /\ documents'[kb_last'.doc].content # documents[kb_last'.doc].content)
       => RowsOf(kb_embeddings', kb_last'.doc)
            = IndexedRows(kb_last'.doc, documents'[kb_last'.doc].content)]_vars

\* the content argument of the last call is absent or equal to the stored content
ContentKept(doc, a) == IsNone(a.content) \/ Val(a.content) = doc.content

\* C5: update_document with the content argument absent or equal to the stored
\* content leaves the embedding rows unchanged and calls no embedding, whatever
\* other fields change; when only category changes, the audit entry written
\* records the category change and nothing else.
C5_NonContentUpdateKeepsEmbeddings ==
    [][(/\ kb_last'.op = "update"
        /\ kb_last'.doc \in DOMAIN documents
        /\ ContentKept(documents[kb_last'.doc], kb_last'.args))
       => /\ kb_embeddings' = kb_embeddings
          /\ kb_last'.calls = 0
          /\ documents'[kb_last'.doc].content = documents[kb_last'.doc].content
          /\ ({f \in DocFields : documents'[kb_last'.doc][f] # documents[kb_last'.doc][f]}
                = {"category"}
              => audit_log' = Append(audit_log,
                     [document_id |-> kb_last'.doc, action |-> "updated",
                      performed_by |-> Admin,
                      changes |-> [k \in {"category"} |->
                                     [old |-> documents[kb_last'.doc].category,
                                      new |-> Val(documents'[kb_last'.doc].category)]]]))]_vars

\* C5 witness: a category-only update of a document that holds two chunks
C5_Witness ==
    /\ kb_last.op = "update" /\ kb_last.ok
    /\ kb_last.args = [NoArgs EXCEPT !.category = Some("care")]
    /\ kb_last.doc \in DOMAIN documents
    /\ Cardinality(RowsOf(kb_embeddings, kb_last.doc)) = 2
    /\ audit_log[Len(audit_log)].action = "updated"
    /\ DOMAIN audit_log[Len(audit_log)].changes = {"category"}

\* C6: when the embedding call fails during update_document after the old
\* chunks were deleted, the update is rolled back: the committed document
\* fields, the previous chunk set and the audit log are as before the call.
C6_FailedUpdateRollsBack ==
    [][(kb_last'.op = "update" /\ ~kb_last'.ok)
       => /\ documents' = documents
          /\ kb_embeddings' = kb_embeddings
          /\ audit_log' = audit_log]_vars

\* C6 witness: the provider failed while re-indexing a two-chunk document for
\* a new content, and the two old chunks are still there
C6_Witness ==
    /\ kb_last.op = "update" /\ ~kb_last.ok /\ kb_last.calls = 1
    /\ kb_last.provider = "failing"
    /\ kb_last.doc \in DOMAIN documents
    /\ ~ContentKept(documents[kb_last.doc], kb_last.args)
    /\ ~IsNone(kb_last.args.title)
    /\ documents[kb_last.doc].content = LongText
    /\ Cardinality(RowsOf(kb_embeddings, kb_last.doc)) = 2

\* C7: every field whose value a successful update_document changes appears in
\* the 'updated' audit entry of that call, so an update that changes a field
\* writes an audit entry.
C7_EveryChangedFieldAudited ==
    [][(kb_last'.op = "update" /\ kb_last'.ok /\ kb_last'.doc \in DOMAIN documents)
       => \A f \in DocFields :
            documents'[kb_last'.doc][f] # documents[kb_last'.doc][f]
            => /\ Len(audit_log') = Len(audit_log) + 1
               /\ audit_log'[Len(audit_log')].action = "updated"
               /\ f \in DOMAIN audit_log'[Len(audit_log')].changes]_vars

(***************************************************************************)
(* Claims about the chat request and the fiber searches (SpecChat).        *)
(***************************************************************************)
\* the fiber ids of a result list, in order
RECURSIVE FiberIdsOf(_)
FiberIdsOf(results) ==
    IF results = <<>> THEN <<>> ELSE <<Head(results).fiber>> \o FiberIdsOf(Tail(results))

\* the elements of a sequence that do not occur in another one, in order
RECURSIVE Without(_, _)
Without(seq, other) ==
    IF seq = <<>> THEN <<>>
    ELSE (IF InSeq(Head(seq), other) THEN <<>> ELSE <<Head(seq)>>) \o Without(Tail(seq), other)

\* the last request was a chat request that ran the fiber semantic search
SemanticRan == chat_last.op = "chat" /\ ~IsNone(chat_last.retrieval.semantic)

\* C1: when the category short-circuit did not apply and semantic_search
\* returned fewer than 8 results, keyword_search is run for the same search
\* string and exactly its hits with a new fiber id are appended with score
\* 0.75; the final list has no two entries with the same fiber id, and the
\* semantic entries come first with their own similarity.
C1_KeywordSupplementMerge ==
    SemanticRan =>
        /\ Len(Val(chat_last.retrieval.semantic).result) < 8
              => /\ ~IsNone(chat_last.retrieval.keyword)
                 /\ Val(chat_last.retrieval.keyword).query
                      = Val(chat_last.retrieval.semantic).query
        /\ ~IsNone(chat_last.retrieval.keyword)
              => FiberIdsOf(chat_last.retrieval.search_results)
                   = FiberIdsOf(Val(chat_last.retrieval.semantic).result)
                       \o Without(Val(chat_last.retrieval.keyword).result,
                                  FiberIdsOf(Val(chat_last.retrieval.semantic).result))
        /\ \A i, j \in 1..Len(chat_last.retrieval.search_results) :
              chat_last.retrieval.search_results[i].fiber
                  = chat_last.retrieval.search_results[j].fiber => i = j
        /\ Len(chat_last.retrieval.search_results)
              >= Len(Val(chat_last.retrieval.semantic).result)
        /\ \A i \in 1..Len(chat_last.retrieval.search_results) :
              IF i <= Len(Val(chat_last.retrieval.semantic).result)
              THEN chat_last.retrieval.search_results[i]
                      = Val(chat_last.retrieval.semantic).result[i]
              ELSE /\ chat_last.retrieval.search_results[i].similarity = 75
                   /\ chat_last.retrieval.search_results[i].content_type = "keyword_match"

\* C1 witness: three semantic matches (0.82, 0.70, 0.50) for "cotton", keyword
\* hits Cotton and Polyester, and only Polyester appended with 0.75
C1_Witness ==
    /\ SemanticRan
    /\ chat_last.retrieval.search_query = "cotton"
    /\ FiberIdsOf(Val(chat_last.retrieval.semantic).result) = <<1, 2, 3>>
    /\ Val(chat_last.retrieval.semantic).result[1].similarity = 82
    /\ ~IsNone(chat_last.retrieval.keyword)
    /\ Val(chat_last.retrieval.keyword).result = <<1, 6>>
    /\ FiberIdsOf(chat_last.retrieval.search_results) = <<1, 2, 3, 6>>
    /\ chat_last.retrieval.search_results[4].similarity = 75

\* C2: for a message with requires_search and the listing signal, a non-empty
\* result of search_fibers_by_category is the final candidate list, each entry
\* with similarity 1.0, and neither semantic_search nor keyword_search nor the
\* history carry-forward runs; without the listing signal the category
\* resolver is never invoked.
C2_CategoryShortCircuit ==
    (chat_last.op = "chat" /\ chat_last.status # 404) =>
        /\ (/\ detect_query_intent(chat_last.message).requires_search
            /\ AnyIn(Lower(chat_last.message), ListingWords)
            /\ search_fibers_by_category(chat_last.message, 20).fibers # <<>>)
              => /\ FiberIdsOf(chat_last.retrieval.search_results)
                      = search_fibers_by_category(chat_last.message, 20).fibers
                 /\ \A i \in 1..Len(chat_last.retrieval.search_results) :
                       chat_last.retrieval.search_results[i].similarity = 100
                 /\ IsNone(chat_last.retrieval.semantic)
                 /\ IsNone(chat_last.retrieval.keyword)
                 /\ ~chat_last.retrieval.history_checked
                 /\ \A i \in 1..Len(chat_last.events) :
                       chat_last.events[i][1]
                          \notin {"emb_check", "emb_count", "similarity", "kw_count", "kw_select"}
        /\ ~AnyIn(Lower(chat_last.message), ListingWords)
              => ~chat_last.retrieval.category_called

\* C2 witness: "list all natural fibers" sent in a conversation whose history
\* names a fiber; the five natural fibers are the candidates
C2_Witness ==
    /\ chat_last.op = "chat"
    /\ chat_last.message = "list all natural fibers"
    /\ chat_last.retrieval.category_called
    /\ FiberIdsOf(chat_last.retrieval.search_results) = <<1, 2, 3, 4, 5>>
    /\ chat_last.conversation_id \in DOMAIN conversations
    /\ ~IsNone(FirstFiber(Lower(ConversationContext(
                  conversations[chat_last.conversation_id].messages)), 1))

\* the store statements issued inside the semantic searches
SemanticStatements == {"emb_check", "emb_count", "similarity", "kb_similarity"}

\* C8: whenever a store statement issued inside a semantic search fails, the
\* session is rolled back before any further store statement is issued.
C8_RollbackBeforeNextStatement ==
    chat_last.op = "chat" =>
        \A i \in 1..(Len(chat_last.events) - 1) :
            (chat_last.events[i][1] \in SemanticStatements /\ chat_last.events[i][2] = "failed")
                => chat_last.events[i + 1][1] = "rollback"

\* the outcome of the first statement of the keyword search that follows
\* event i of the request
KeywordOutcomeAfter(i) ==
    chat_last.events[CHOOSE j \in (i + 1)..Len(chat_last.events) :
                        /\ chat_last.events[j][1] = "kw_count"
                        /\ \A k \in (i + 1)..(j - 1) : chat_last.events[k][1] # "kw_count"][2]

\* semantic_search of the last request took one of its fallback paths
FallbackCase ==
    \/ chat_last.env.provider # "working"
    \/ chat_last.env.embeddings = "none"
    \/ "similarity" \in chat_last.env.faults

\* C9: semantic_search never raises because of the embedding provider: when
\* the provider is unconfigured, no embeddings exist, or the embedding call or
\* the similarity query fails, it returns what keyword_search returns for the
\* same query and limit, each item tagged with a fixed similarity.
C9_SemanticSearchFallsBack ==
    SemanticRan =>
        /\ ~chat_last.retrieval.raised
        /\ FallbackCase
              => /\ FiberIdsOf(Val(chat_last.retrieval.semantic).result)
                      = (IF KeywordOutcomeAfter(1) = "ok"
                         THEN KeywordSelect(Val(chat_last.retrieval.semantic).query, 15)
                         ELSE <<>>)
                 /\ \A i \in 1..Len(Val(chat_last.retrieval.semantic).result) :
                       Val(chat_last.retrieval.semantic).result[i].similarity
                          = (IF chat_last.env.provider = "unconfigured" THEN 100 ELSE 80)

\* C9 witness: the embedding call failed and the keyword hits for "cotton"
\* came back tagged 0.8
C9_Witness ==
    /\ SemanticRan
    /\ chat_last.env.provider = "failing"
    /\ chat_last.env.embeddings = "some"
    /\ chat_last.env.faults = {}
    /\ Val(chat_last.retrieval.semantic).query = "cotton"
    /\ FiberIdsOf(Val(chat_last.retrieval.semantic).result) = <<1, 6>>
    /\ Val(chat_last.retrieval.semantic).result[1].similarity = 80

\* C10: when the similarity query fails and the keyword fallback query fails
\* as well, semantic_search raises to its caller instead of returning a result.
C10_DoubleFailureIsRaised ==
    (/\ SemanticRan
     /\ \E i \in 1..(Len(chat_last.events) - 1) :
           /\ chat_last.events[i] = <<"similarity", "failed">>
           /\ \E j \in (i + 1)..Len(chat_last.events) : chat_last.events[j][1] = "kw_count"
           /\ KeywordOutcomeAfter(i) = "failed")
        => chat_last.retrieval.raised

(***************************************************************************)
(* Claims about the similarity queries (SpecQuery, SpecDocSearch).         *)
(***************************************************************************)
\* the similarities of all stored embeddings of a fiber / chunks of a document
FiberSimilarities(profile, id) == {Similarity(profile, id, t) : t \in ContentTypes}

ChunkSimilarities(profile, id) == {DocSimilarity(profile, id, i) : i \in ChunkIndexes}

\* the rows are in descending similarity and at most limit many
DescendingWithin(rows, sims, limit) ==
    /\ Len(rows) <= limit
    /\ \A i, j \in 1..Len(rows) : i < j => sims[i] >= sims[j]

\* C11: one call of the similarity query (fiber or document) returns at most
\* one row per item; the row is the item's embedding with minimal cosine
\* distance, its similarity is at least the threshold, and the rows come in
\* descending similarity, at most limit of them.
C11_OneBestRowPerItem ==
    /\ (call.fn = "fiber_query" /\ call.done) =>
          /\ \A i, j \in 1..Len(call.result) :
                call.result[i].fiber = call.result[j].fiber => i = j
          /\ \A i \in 1..Len(call.result) :
                /\ call.result[i].similarity
                      = Similarity(call.args.profile, call.result[i].fiber,
                                   call.result[i].content_type)
                /\ \A x \in FiberSimilarities(call.args.profile, call.result[i].fiber) :
                      x <= call.result[i].similarity
                /\ call.result[i].similarity >= call.args.threshold
          /\ DescendingWithin(call.result,
                              [i \in 1..Len(call.result) |-> call.result[i].similarity],
                              call.args.limit)
    /\ (call.fn = "document_query" /\ call.done) =>
          /\ \A i, j \in 1..Len(call.result) :
                call.result[i].document_id = call.result[j].document_id => i = j
          /\ \A i \in 1..Len(call.result) :
                /\ \A x \in ChunkSimilarities(call.args.profile, call.result[i].document_id) :
                      x <= DocSimilarity(call.args.profile, call.result[i].document_id,
                                         call.result[i].chunk_index)
                /\ DocSimilarity(call.args.profile, call.result[i].document_id,
                                 call.result[i].chunk_index) >= call.args.threshold
          /\ DescendingWithin(call.result,
                              [i \in 1..Len(call.result) |->
                                 DocSimilarity(call.args.profile, call.result[i].document_id,
                                               call.result[i].chunk_index)],
                              call.args.limit)

\* C11 witness: a fiber query that returns three rows, the first one the
\* better of two embeddings of its fiber that both reach the threshold
C11_Witness ==
    /\ call.fn = "fiber_query" /\ call.done
    /\ call.args.profile = "sparse" /\ call.args.threshold = 45 /\ call.args.limit = 3
    /\ Len(call.result) = 3
    /\ call.result[1] = [fiber |-> 1, similarity |-> 82, content_type |-> "name"]
    /\ Similarity("sparse", 1, "complete") >= call.args.threshold

\* the document ids of a result list, in order
RECURSIVE DocumentIdsOf(_)
DocumentIdsOf(rows) ==
    IF rows = <<>> THEN <<>> ELSE <<Head(rows).document_id>> \o DocumentIdsOf(Tail(rows))

\* the chunks in scope when fiber-id membership is a scope filter as well
ScopedChunks(a) ==
    {r \in RankedChunks(a.profile, a.threshold, a.category, a.published_only) :
        RelatesTo(r.document_id, Val(a.fiber_ids))}

\* C12: in document semantic_search every scope filter, fiber-id membership
\* included, is applied before the per-document ranking and the LIMIT: with a
\* fiber_ids filter the result is the (up to) limit most similar documents
\* above the threshold among those related to one of the fibers.
C12_FiberFilterBeforeLimit ==
    (/\ call.fn = "document_search" /\ call.done
     /\ ~IsNone(call.args.fiber_ids) /\ Val(call.args.fiber_ids) # <<>>)
        => DocumentIdsOf(call.result)
             = DocumentIdsOf(Take(OrderChunks(BestChunks(ScopedChunks(call.args),
                                                         call.args.profile, call.args.ties),
                                              call.args.profile, call.args.ties),
                                  call.args.limit))

(***************************************************************************)
(* Further claims about the chat request (SpecChat).                       *)
(***************************************************************************)
\* C13: in the merged candidate list of chat_with_bot every keyword-appended
\* item carries a similarity (0.75) strictly lower than the similarity of
\* every true semantic match, so the list is in descending similarity.
C13_KeywordBelowSemantic ==
    (SemanticRan /\ ~IsNone(chat_last.retrieval.keyword)) =>
        /\ \A i, j \in 1..Len(chat_last.retrieval.search_results) :
              (/\ i <= Len(Val(chat_last.retrieval.semantic).result)
               /\ chat_last.retrieval.search_results[i].content_type \in ContentTypes
               /\ j > Len(Val(chat_last.retrieval.semantic).result))
                  => chat_last.retrieval.search_results[j].similarity
                        < chat_last.retrieval.search_results[i].similarity
        /\ \A i, j \in 1..Len(chat_last.retrieval.search_results) :
              i < j => chat_last.retrieval.search_results[i].similarity
                          >= chat_last.retrieval.search_results[j].similarity

(***************************************************************************)
(* Claims about overlapping chat requests (SpecChatRace).                  *)
(***************************************************************************)
\* one list continues the other: it starts with all of its turns, in place
Continues(after, before) ==
    Len(after) >= Len(before) /\ SubSeq(after, 1, Len(before)) = before

\* C14: the stored message list of a conversation is append-only under
\* chat_with_bot: for any interleaving of chat requests on the same active
\* conversation, every turn committed by one request is still present, in
\* its position, after any other request commits.
C14_MessagesAppendOnly ==
    [][\A id \in DOMAIN conversations :
          Continues(conversations'[id].messages, conversations[id].messages)]_vars

(***************************************************************************)
(* Claims about the fiber-name vocabulary (SpecVocabulary).                *)
(***************************************************************************)
\* C15: the cache-clear operation succeeds for an authenticated caller, and
\* a fiber added to the store before a cache clear is recognized as
\* entities.fiber_name by every detect_query_intent call made after the clear.
C15_CacheClearRefreshesVocabulary ==
    /\ fiber_last.op = "clear_fiber_cache" => fiber_last.status = 200
    /\ (fiber_last.op = "detect_query_intent" /\ fiber_last.fiber_id \in cleared)
          => fiber_last.intent.fiber_name = Some(Lower(FiberPayloads[fiber_last.fiber_id].name))

(***************************************************************************)
(* Claims about the fiber embeddings (SpecEmbeddings).                     *)
(***************************************************************************)
OneEmbeddingPerKey ==
    \A e1, e2 \in fiber_embeddings :
        (e1.fiber_id = e2.fiber_id /\ e1.content_type = e2.content_type) => e1 = e2

\* a step in which a non-forced run commits a fiber keeps every committed row
\* as it is and adds rows only for keys that had none
NonForcedOnlyAdds ==
    \A r \in 1..MaxSessions :
        (runs[r].pc = "write" /\ ~runs[r].force /\ runs'[r] # runs[r]) =>
            /\ fiber_embeddings \subseteq fiber_embeddings'
            /\ \A e \in fiber_embeddings' \ fiber_embeddings :
                  /\ e.fiber_id = Head(runs[r].todo).id
                  /\ ~\E old \in fiber_embeddings :
                        old.fiber_id = e.fiber_id /\ old.content_type = e.content_type

\* the last request was a non-forced run that began right after the end of a
\* non-forced run of the same kind, no other request overlapping either of them
SecondRunInARow ==
    /\ fiber_last.op = "generate_fiber_embeddings"
    /\ ~fiber_last.force /\ fiber_last.alone
    /\ fiber_last.after.op = "generate_fiber_embeddings"
    /\ fiber_last.after.kind = fiber_last.kind
    /\ ~fiber_last.after.force /\ fiber_last.after.alone

Normalized == call.fn = "normalize_query" /\ call.done

\* at most 12 variants, pairwise distinct, non-empty and lowercase
WellFormedVariants(variants) ==
    /\ Len(variants) <= 12
    /\ \A i, j \in 1..Len(variants) : variants[i] = variants[j] => i = j
    /\ \A i \in 1..Len(variants) : variants[i] # "" /\ Lower(variants[i]) = variants[i]

HasNonWhitespace(query) == \E i \in 1..Len(query) : ~IsSpace(CharAt(query, i))

\* C17: normalize_query returns at most 12 variants that are pairwise
\* distinct, non-empty and lowercase; for a query with at least one
\* non-whitespace character the first variant is the base pattern.
C17_VariantsWidenBasePattern ==
    Normalized =>
        /\ WellFormedVariants(call.result)
        /\ HasNonWhitespace(call.args.query) =>
              (call.result # <<>> /\ call.result[1] = Pattern1(call.args.query))

\* C17, with the case of the first variant made precise: at most 12 variants,
\* pairwise distinct, non-empty and lowercase; for a query whose base pattern
\* is not empty (a character other than whitespace, '_' and '-' occurs in it)
\* the first variant is the base pattern.
C17_WellFormedVariants ==
    Normalized =>
        /\ WellFormedVariants(call.result)
        /\ Pattern1(call.args.query) # "" =>
              (call.result # <<>> /\ call.result[1] = Pattern1(call.args.query))

\* a query with capitals and a double space that yields the full 12 variants
C17_Witness ==
    /\ Normalized
    /\ Lower(call.args.query) # call.args.query
    /\ Len(call.result) = 12
    /\ call.result[1] # Lower(call.args.query)

\* C18: for any query q and any variant v of normalize_query(q), every
\* element of normalize_query(v) is an element of normalize_query(q).
C18_RenormalizingAddsNothing ==
    call.fn = "normalize_variant" =>
        \A i \in 1..Len(call.result) : InSeq(call.result[i], call.args.variants)

\* C19: for the query "cottn" and a store holding an active fiber named
\* "Cotton", normalize_query produces a variant that is a substring of
\* "cotton", and keyword_search("cottn") returns the Cotton record.
C19_CottnFindsCotton ==
    /\ (Normalized /\ call.args.query = "cottn") =>
          \E i \in 1..Len(call.result) : Contains("cotton", call.result[i])
    /\ (call.fn = "keyword_search" /\ call.done /\ call.args.query = "cottn") =>
          \E i \in 1..Len(call.result) : FiberRows[call.result[i]].name = "Cotton"

(***************************************************************************)
(* Claims about chunk_document (SpecChunk).                                *)
(***************************************************************************)
\* a chunk that is one sentence, itself longer than chunk_size
SingleLongSentence(chunk) == Len(chunk) > chunk_size /\ Len(SplitSentences(chunk)) = 1

\* C20: a paragraph longer than the target size is always split on sentence
\* boundaries (no chunk holds the whole of a paragraph that is longer than
\* chunk_size and has several sentences), and every chunk is at most
\* chunk_size + chunk_overlap + 2 characters long unless it holds a single
\* sentence that is itself longer than chunk_size.
C20_ChunksWithinSize ==
    (call.fn = "chunk_document" /\ call.done) =>
        \A i \in 1..Len(call.result) :
            /\ Len(call.result[i]) <= chunk_size + chunk_overlap + 2
                  \/ SingleLongSentence(call.result[i])
            /\ \A k \in 1..Len(call.args.layout) :
                  (/\ Len(Paragraphs[call.args.layout[k]]) > chunk_size
                   /\ Len(SplitSentences(Paragraphs[call.args.layout[k]])) > 1)
                     => ~Contains(call.result[i], Paragraphs[call.args.layout[k]])

\* the first chunk from chunk i on that holds the text, 0 when there is none
FirstChunkWith(chunks, unit, i) ==
    LET hits == {j \in i..Len(chunks) : Contains(chunks[j], unit)}
    IN  IF hits = {} THEN 0 ELSE CHOOSE j \in hits : \A m \in hits : j <= m

\* the sentences found whole, one after the other, from chunk i on: the chunk
\* of the last one, 0 when one of them is missing
RECURSIVE PlaceSentences(_, _, _)
PlaceSentences(sentences, chunks, i) ==
    IF i = 0 \/ sentences = <<>> THEN i
    ELSE PlaceSentences(Tail(sentences), chunks, FirstChunkWith(chunks, Head(sentences), i))

\* a paragraph found from chunk i on: whole when it fits the target size,
\* whole or sentence by sentence when it does not
PlaceParagraph(paragraph, chunks, i) ==
    IF i = 0 \/ paragraph = "" THEN i
    ELSE IF Len(paragraph) + 2 <= chunk_size THEN FirstChunkWith(chunks, paragraph, i)
    ELSE PlaceSentences(SplitSentences(paragraph), chunks, i)

\* the paragraphs of a document found in document order from chunk i on
RECURSIVE PlaceParagraphs(_, _, _)
PlaceParagraphs(layout, chunks, i) ==
    IF i = 0 \/ layout = <<>> THEN i
    ELSE PlaceParagraphs(Tail(layout), chunks,
                         PlaceParagraph(Strip(Paragraphs[Head(layout)]), chunks, i))

\* C21: chunk_document returns the empty list for empty input, and for any
\* input the chunks, in order, contain every non-empty paragraph: a paragraph
\* that was not sentence-split occurs whole (trimmed) inside one chunk, every
\* sentence of a sentence-split paragraph occurs whole inside one chunk, and
\* paragraphs and sentences appear in document order across the chunks.
C21_ChunksCoverDocument ==
    (call.fn = "chunk_document" /\ call.done) =>
        /\ call.args.layout = <<>> => call.result = <<>>
        /\ call.args.layout # <<>> => PlaceParagraphs(call.args.layout, call.result, 1) # 0

\* a document whose first paragraph is split into sentences and whose last
\* paragraph is short and trimmed, chunked into two chunks or more
C21_Witness ==
    /\ call.fn = "chunk_document" /\ call.done
    /\ call.args.layout = <<5, 6>>
    /\ Len(call.result) >= 2

(***************************************************************************)
(* Claims about search_fibers_by_category (SpecCategory).                  *)
(***************************************************************************)
Resolved == call.fn = "search_fibers_by_category" /\ call.done

\* the keywords of the category table that occur in the lowercased query
KeywordsIn(query) ==
    {k \in 1..Len(CategoryKeywords) : Contains(Lower(query), CategoryKeywords[k][2])}

\* the lookup rows that match keyword k by name
LookupMatches(k) ==
    MatchingCategories(LookupNames(CategoryKeywords[k][1]), CategoryKeywords[k][2])

\* the active fibers that belong to a lookup row
ActiveFibersIn(category_type, name) ==
    {id \in FiberIds : /\ FiberRows[id].is_active
                       /\ CategoryOfRow(FiberRows[id], category_type) = Some(name)}

NoMatchResult == [fibers |-> <<>>, category_type |-> None, category_name |-> None]

\* C22: search_fibers_by_category returns a non-empty fiber list whenever the
\* lowercased query contains a keyword of the category table for which at
\* least one lookup row matches by name, and returns the empty 'no match'
\* result whenever the query contains no keyword of the table.
C22_CategoryKeywordResolves ==
    Resolved =>
        /\ (\E k \in KeywordsIn(call.args.query) : LookupMatches(k) # <<>>)
              => call.result.fibers # <<>>
        /\ KeywordsIn(call.args.query) = {} => call.result = NoMatchResult

\* C22, with the lookup row's fibers taken into account: the fiber list is
\* non-empty whenever the query contains a keyword for which a matching lookup
\* row has at least one active fiber; the 'no match' result is returned
\* whenever the query contains no keyword of the table.
C22_CategoryWithFibersResolves ==
    Resolved =>
        /\ (\E k \in KeywordsIn(call.args.query) :
              \E i \in 1..Len(LookupMatches(k)) :
                 ActiveFibersIn(CategoryKeywords[k][1], LookupMatches(k)[i]) # {})
              => call.result.fibers # <<>>
        /\ KeywordsIn(call.args.query) = {} => call.result = NoMatchResult

\* a query in capitals whose first keyword has a lookup row without active
\* fibers and whose second keyword resolves
C22_Witness ==
    /\ Resolved
    /\ call.args.query = "Regenerated bast fibers"
    /\ call.result.category_name = Some("bast")
    /\ Len(call.result.fibers) = 2

(***************************************************************************)
(* Claims about detect_query_intent (SpecIntent).                          *)
(***************************************************************************)
Detected == call.fn = "detect_query_intent" /\ call.done

\* the tests whose keyword set has a word in the lowercased query
MatchingTests(query) ==
    {k \in 1..Len(IntentKeywords) : AnyIn(Lower(query), IntentKeywords[k][2])}

\* a vocabulary fiber name occurs in the lowercased query
NamesFiber(query) ==
    \E k \in 1..Len(common_fibers) : Contains(Lower(query), common_fibers[k])

\* C23: the intent type is that of the last matching keyword set in the order
\* property_inquiry, manufacturing_inquiry, application_inquiry, comparison,
\* identification, category_inquiry, structure_image_request, and general
\* exactly when none matches; requires_search is true exactly when a
\* vocabulary fiber name occurs in the query or the type is not general;
\* needs_images is set exactly when the type is structure_image_request.
C23_LastMatchingIntentWins ==
    Detected =>
        LET matching == MatchingTests(call.args.query)
        IN  /\ \A k \in matching :
                 (\A j \in matching : j <= k) => call.result.type = IntentKeywords[k][1]
            /\ (call.result.type = "general") = (matching = {})
            /\ call.result.requires_search
                  = (NamesFiber(call.args.query) \/ call.result.type # "general")
            /\ call.result.needs_images = (call.result.type = "structure_image_request")

\* a query that matches the property, comparison and no later test, and names
\* two fibers
C23_Witness ==
    /\ Detected
    /\ call.args.query = "Compare nylon vs polyester properties"
    /\ MatchingTests(call.args.query) = {1, 4}
    /\ call.result.type = "comparison"
    /\ call.result.fiber_name = Some("polyester")

(***************************************************************************)
(* Claims about the retrieval of a chat request (SpecChat).                *)
(***************************************************************************)
\* the statements that the fiber searches send to the store
FiberSearchStatements ==
    {"category_select", "emb_check", "emb_count", "similarity", "kw_count", "kw_sample",
     "kw_select"}

\* C24: when the intent of the message has requires_search false, the request
\* invokes none of search_fibers_by_category, semantic_search and
\* keyword_search, its candidate list stays empty and no fiber context message
\* is added to the prompt.
C24_NoSearchWithoutIntent ==
    (/\ chat_last.op = "chat" /\ chat_last.status # 404
     /\ ~detect_query_intent(chat_last.message).requires_search) =>
        /\ ~chat_last.retrieval.category_called
        /\ IsNone(chat_last.retrieval.semantic)
        /\ IsNone(chat_last.retrieval.keyword)
        /\ chat_last.retrieval.search_results = <<>>
        /\ \A i \in 1..Len(chat_last.events) :
              chat_last.events[i][1] \notin FiberSearchStatements
        /\ ~FiberContextInjected(chat_last.retrieval, chat_last.step)

\* a greeting answered a second time in the same conversation
C24_Witness ==
    /\ chat_last.op = "chat" /\ chat_last.status = 200
    /\ chat_last.message = "hello"
    /\ Len(conversations[chat_last.conversation_id].messages) = 4
    /\ conversations[chat_last.conversation_id].messages[1].content = "hello"

(***************************************************************************)
(* Claims about build_fiber_context (SpecContext).                         *)
(***************************************************************************)
Digits == "0123456789"

\* a line that opens a numbered entry: digits followed by ". **"
IsEntryHead(line) ==
    \E k \in 1..3 :
        /\ Len(line) >= k + 4
        /\ \A i \in 1..k : Contains(Digits, SubSeq(line, i, i))
        /\ SubSeq(line, k + 1, k + 4) = ". **"

\* the positions of the entry heads among the lines of a context
EntryHeads(lines) == {i \in 1..Len(lines) : IsEntryHead(lines[i])}

\* the position of the n-th entry head, and the lines of the n-th entry
NthHead(lines, n) ==
    CHOOSE i \in EntryHeads(lines) : Cardinality({j \in EntryHeads(lines) : j <= i}) = n

EntryLines(lines, n) ==
    SubSeq(lines, NthHead(lines, n),
           IF n < Cardinality(EntryHeads(lines)) THEN NthHead(lines, n + 1) - 1
           ELSE Len(lines))

StartsWith(s, prefix) == Len(s) >= Len(prefix) /\ SubSeq(s, 1, Len(prefix)) = prefix

\* C25: build_fiber_context returns the empty string for an empty candidate
\* list; for a non-empty list it emits exactly one entry per candidate, in
\* input order and numbered 1..n, and an entry contains a relevance-score line
\* exactly when the similarity of its candidate is below 1.0.
C25_OneNumberedEntryPerCandidate ==
    (call.fn = "build_fiber_context" /\ call.done) =>
        LET items == call.args.fibers
            lines == Split(call.result, "\n")
        IN  /\ (items = <<>>) = (call.result = "")
            /\ items # <<>> =>
                 /\ Cardinality(EntryHeads(lines)) = Len(items)
                 /\ \A n \in 1..Len(items) :
                      /\ StartsWith(lines[NthHead(lines, n)],
                                    ToString(n) \o ". **"
                                       \o FiberRows[items[n].fiber].name \o "**")
                      /\ (\E i \in 1..Len(EntryLines(lines, n)) :
                             StartsWith(EntryLines(lines, n)[i], "   - Relevance Score: "))
                           = ("similarity" \in DOMAIN items[n] /\ items[n].similarity < 100)

\* a semantic match followed by a category match
C25_Witness ==
    /\ call.fn = "build_fiber_context" /\ call.done
    /\ Len(call.args.fibers) = 2
    /\ call.args.fibers[1] = [fiber |-> 9, similarity |-> 45, content_type |-> "semantic"]
    /\ call.args.fibers[2] = [fiber |-> 1, similarity |-> 100, content_type |-> "semantic"]
    /\ Contains(call.result, "\n1. **Spandex** (ID: F9)\n   - Class: Synthetic\n   - Trade Names: Lycra\n   - Relevance Score: 0.45\n\n2. **Cotton** (ID: F1)")

(***************************************************************************)
(* Claims about a search during a re-index (SpecReindex).                  *)
(***************************************************************************)
\* the last search ran while a re-index had deleted a document's chunks and
\* had not committed
SearchedMidReindex ==
    /\ call.fn = "kb_semantic_search"
    /\ ~IsNone(call.args.reindexing)
    /\ Val(call.args.reindexing).deleted # {}
    /\ ~call.args.published_only

\* the rows of the re-indexed document in the result of the last search
SeenOfReindexed == {r \in call.result : r.document_id = Val(call.args.reindexing).doc}

StoredBefore ==
    LET messages == conversations[chat_last.conversation_id].messages
    IN  IF chat_last.status = 200 THEN SubSeq(messages, 1, Len(messages) - 2) ELSE messages

\* the first name of the vocabulary that occurs in a lowercased text
FirstNamed(text) ==
    common_fibers[CHOOSE k \in 1..Len(common_fibers) :
                     /\ Contains(Lower(text), common_fibers[k])
                     /\ \A j \in 1..(k - 1) : ~Contains(Lower(text), common_fibers[j])]

\* the space-joined contents of the last 6 messages
LastSix(messages) ==
    Join([i \in 1..(IF Len(messages) > 6 THEN 6 ELSE Len(messages)) |->
             messages[i + (IF Len(messages) > 6 THEN Len(messages) - 6 ELSE 0)].content],
         " ")

\* the search string the claim describes
ClaimedSearchString(message, messages) ==
    IF NamesFiber(message) THEN FirstNamed(message)
    ELSE IF NamesFiber(LastSix(messages)) THEN FirstNamed(LastSix(messages)) \o " " \o message
    ELSE message

\* C27: when the category short-circuit does not apply, the search string that
\* chat_with_bot passes to the semantic search and to the keyword search is the
\* detected fiber name alone if the message contains a vocabulary fiber name,
\* otherwise '<fiber> <message>' if intent detection over the space-joined
\* contents of the last 6 stored messages finds a fiber name, otherwise the
\* message unchanged.
C27_SearchStringCarriesHistory ==
    (/\ chat_last.op = "chat" /\ chat_last.status # 404
     /\ detect_query_intent(chat_last.message).requires_search
     /\ chat_last.retrieval.category_fibers = <<>>) =>
        /\ ~IsNone(chat_last.retrieval.semantic)
        /\ Val(chat_last.retrieval.semantic).query
              = ClaimedSearchString(chat_last.message, StoredBefore)
        /\ ~IsNone(chat_last.retrieval.keyword) =>
              Val(chat_last.retrieval.keyword).query
                 = ClaimedSearchString(chat_last.message, StoredBefore)

\* a follow-up question in a conversation that named hemp more than 6
\* messages ago
C27_Witness ==
    /\ chat_last.op = "chat" /\ chat_last.status # 404
    /\ chat_last.message = "compare its properties"
    /\ Len(StoredBefore) = 8
    /\ StoredBefore[1].content = "is hemp strong"
    /\ ~NamesFiber(LastSix(StoredBefore))
    /\ ~IsNone(chat_last.retrieval.semantic)
    /\ Val(chat_last.retrieval.semantic).query = "compare its properties"

(***************************************************************************)
(* Claims about the steps after the retrieval (SpecChat).                  *)
(***************************************************************************)
\* C28: a chat request whose fiber retrieval yields at least one candidate
\* builds the fiber context and proceeds to the call of the language model:
\* every step between the retrieval and that call completes, so the request
\* ends, if at all in an error, in an error of the call or of the commit.
C28_RetrievalReachesTheModel ==
    (/\ chat_last.op = "chat" /\ chat_last.status # 404
     /\ ~chat_last.retrieval.raised
     /\ chat_last.retrieval.search_results # <<>>) =>
        chat_last.step \in {"llm", "commit", "done"}

(***************************************************************************)
(* Claims about the conversation lifecycle (SpecLifecycle).  Every request *)
(* of the model is made by the owner of the conversation.                  *)
(***************************************************************************)
\* a step that appends one user turn followed by one ai turn
AppendsOneExchange(before, after) ==
    /\ Len(after) = Len(before) + 2
    /\ SubSeq(after, 1, Len(before)) = before
    /\ after[Len(before) + 1].role = "user"
    /\ after[Len(before) + 2].role = "ai"

\* C29: a conversation starts active; chat and end succeed only on an active
\* conversation and continue only on an inactive one; a rejected request and
\* a chat request that fails leave the stored messages and the active flag
\* unchanged; every successful chat request appends exactly one user turn
\* followed by one ai turn, and no turn is appended to a conversation between
\* its end and the next continue.
C29_ConversationLifecycle ==
    [][/\ \A id \in DOMAIN conversations' \ DOMAIN conversations :
            conversations'[id].is_active /\ conversations'[id].messages = <<>>
       /\ \A id \in DOMAIN conversations :
            /\ chat_last'.status # 200 => conversations'[id] = conversations[id]
            /\ conversations'[id].messages # conversations[id].messages =>
                 /\ conversations[id].is_active
                 /\ chat_last'.op = "chat" /\ chat_last'.status = 200
                 /\ AppendsOneExchange(conversations[id].messages,
                                       conversations'[id].messages)
            /\ (conversations[id].is_active /\ ~conversations'[id].is_active) =>
                 chat_last'.op = "end" /\ chat_last'.status = 200
            /\ (~conversations[id].is_active /\ conversations'[id].is_active) =>
                 chat_last'.op = "continue" /\ chat_last'.status = 200
            /\ (chat_last'.op = "end" /\ chat_last'.status = 200
                   /\ chat_last'.conversation_id = id) => conversations[id].is_active
            /\ (chat_last'.op = "continue" /\ chat_last'.status = 200
                   /\ chat_last'.conversation_id = id) => ~conversations[id].is_active
      ]_vars

(***************************************************************************)
(* Claims about the quizzes (SpecQuiz).                                    *)
(***************************************************************************)
\* C30: after any sequence of start_quiz and submit_quiz requests with
\* arbitrary answer lists, every completed attempt has
\* 0 <= correct_answers <= total_questions and 0 <= score <= 100, and a
\* completed attempt is never changed by a later submit, which is rejected.
C30_CompletedAttemptsInRange ==
    /\ [](\A id \in DOMAIN quiz_attempts :
            quiz_attempts[id].is_completed =>
                /\ 0 <= quiz_attempts[id].correct_answers
                /\ quiz_attempts[id].correct_answers <= quiz_attempts[id].total_questions
                /\ 0 <= Val(quiz_attempts[id].score)
                /\ Val(quiz_attempts[id].score) <= 100)
    /\ [][\A id \in DOMAIN quiz_attempts :
            quiz_attempts[id].is_completed =>
                /\ quiz_attempts'[id] = quiz_attempts[id]
                /\ (quiz_last'.op = "submit" /\ quiz_last'.attempt_id = id)
                      => quiz_last'.status \in {400, 404}]_vars

====
